---- MODULE Spec2Model ----
(***************************************************************************)
(* Model of the Phantom Sec demo-data scripts:                             *)
(*   scripts/generate_customers.py            (customer attribute repair)  *)
(*   scripts/generate_frameworks.py           (the 8 reference frameworks) *)
(*   scripts/generate_framework_adoptions.py  (adoption simulator)         *)
(*   scripts/generate_subscription_events.py  (subscription lifecycle)     *)
(*   scripts/generate_compliance_activities.py (activity generator)        *)
(*                                                                         *)
(* Conventions.                                                            *)
(*  - A datetime is an integer: the number of days since 01/01/2020, the   *)
(*    first day of the signup window.  Every datetime the generators build *)
(*    is a midnight (a parsed date plus whole days).                       *)
(*  - A date string "MM/DD/YYYY" is the triple <<MM, DD, YYYY>> of its     *)
(*    three fixed-width fields; format_date and parse_date convert through *)
(*    the Gregorian calendar.                                              *)
(*  - A call of the random module is a choice (\E) over the values the     *)
(*    call can return.  Integer ranges and real intervals that are too     *)
(*    large to enumerate are sampled at the points named in the sample     *)
(*    sets below; a coin flip random.random() < p with 0 < p < 1 has both  *)
(*    outcomes.                                                            *)
(*  - Percentages that the code holds as floats (discounts) are held in    *)
(*    tenths of a percent; multiplication factors in hundredths.           *)
(***************************************************************************)
EXTENDS Integers, Sequences, FiniteSets, TLC

VARIABLES
    script,                  \* which script's main() this behaviour runs
    pc,                      \* position inside the running function
    current_date,            \* datetime.now(), as a day number
    customer,                \* the customer being processed
    \* ---- generate_subscription_events.py: generate_subscription_lifecycle
    will_churn,
    events,                  \* the list being built and returned
    event_id_counter,
    last_event_date,
    current_mrr,
    current_tier,
    current_billing,
    current_contract_length,
    current_event,
    rolls,                   \* the renewal dates at which the churn roll
                             \* random.random() < 0.2 was made
    \* ---- generate_framework_adoptions.py: generate_framework_adoptions
    customer_frameworks,     \* determine_framework_adoptions_for_customer's result
    adoptions,               \* the records appended for this customer
    adoption_id_counter,
    \* ---- generate_compliance_activities.py: generate_compliance_activities
    loaded_adoptions,        \* FACT_FRAMEWORK_ADOPTIONS.json as loaded
    adoption_index,          \* position of the for loop over the adoptions
    draws,                   \* (phase, days_offset) pairs of the last
                             \* generate_activity_dates call, in draw order
    all_activities,
    activity_id_counter,
    \* ---- generate_customers.py: main
    customers,               \* the customer list, updated in place
    validation,              \* validate_customer_data's result
    \* ---- quality_checks.py: main
    files,                   \* the state of each input file on disk
    tables,                  \* the five lists load_json_data returned
    validations,             \* the list of validator results
    mrr_validation,          \* validate_mrr_billing_consistency's result
    report_printed,          \* print_quality_report has run
    exit_status,             \* the status the process exited with
    \* ---- a single call of a pure function
    call                     \* the arguments and the value returned

subVars == <<will_churn, events, event_id_counter, last_event_date,
             current_mrr, current_tier, current_billing,
             current_contract_length, current_event, rolls>>

adoptVars == <<customer_frameworks, adoptions, adoption_id_counter>>

actVars == <<loaded_adoptions, adoption_index, draws, all_activities,
             activity_id_counter>>

custVars == <<customers, validation>>

qcVars == <<files, tables, validations, mrr_validation, report_printed,
            exit_status>>

vars == <<script, pc, current_date, customer, subVars, adoptVars, actVars,
          custVars, qcVars, call>>

-----------------------------------------------------------------------------
(* Bounds and sample sets of the model *)

\* datetime.now() of the modelled run, in days since 01/01/2020 (01/07/2023).
NowDay == 1102

\* Day offsets past signup_date sampled from random.randint(0, 30).
NewEventOffsets == {0, 5, 6, 30}

-----------------------------------------------------------------------------
(* Calendar: datetime.strftime('%m/%d/%Y') and datetime.strptime(.., '%m/%d/%Y') *)

EpochYear == 2020

IsLeap(y) == (y % 4 = 0 /\ y % 100 # 0) \/ (y % 400 = 0)

DaysInYear(y) == IF IsLeap(y) THEN 366 ELSE 365

DaysInMonth(y, m) ==
    IF m = 2 THEN (IF IsLeap(y) THEN 29 ELSE 28)
    ELSE IF m \in {4, 6, 9, 11} THEN 30 ELSE 31

RECURSIVE DaysBeforeYear(_)
DaysBeforeYear(y) ==
    IF y <= EpochYear THEN 0 ELSE DaysBeforeYear(y - 1) + DaysInYear(y - 1)

RECURSIVE DaysBeforeMonth(_, _)
DaysBeforeMonth(y, m) ==
    IF m <= 1 THEN 0 ELSE DaysBeforeMonth(y, m - 1) + DaysInMonth(y, m - 1)

RECURSIVE SplitYear(_, _)
SplitYear(d, y) ==
    IF d < DaysInYear(y) THEN <<y, d>> ELSE SplitYear(d - DaysInYear(y), y + 1)

RECURSIVE SplitMonth(_, _, _)
SplitMonth(d, y, m) ==
    IF d < DaysInMonth(y, m) THEN <<m, d + 1>>
    ELSE SplitMonth(d - DaysInMonth(y, m), y, m + 1)

\* Faulty variant of format_date: the format '%d/%m/%Y', day before month
format_date_day_first(date) ==
    LET yd == SplitYear(date, EpochYear)
        md == SplitMonth(yd[2], yd[1], 1)
    IN  <<md[2], md[1], yd[1]>>

\* format_date: day number -> <<MM, DD, YYYY>>
format_date(date) ==
    LET yd == SplitYear(date, EpochYear)
        md == SplitMonth(yd[2], yd[1], 1)
    IN  <<md[1], md[2], yd[1]>>

\* parse_date: <<MM, DD, YYYY>> -> day number
parse_date(date_str) ==
    DaysBeforeYear(date_str[3]) + DaysBeforeMonth(date_str[3], date_str[1])
        + (date_str[2] - 1)

-----------------------------------------------------------------------------
(* The random module *)

\* random.randint(a, b): any integer of a..b
randint(a, b) == a .. b

\* random.uniform(a, b), sampled at its two end points
uniform(a, b) == {a, b}

Min(a, b) == IF a <= b THEN a ELSE b
Max(a, b) == IF a >= b THEN a ELSE b


\* random.randint(a, b), sampled at its two end points
randint_ends(a, b) == {a, b}

\* random.choices(population, weights)[0]: any element of positive weight
choices(population, weights) ==
    {population[i] : i \in {j \in DOMAIN population : weights[j] > 0}}

\* random.random() < p, for a probability p given in hundredths
coin(p) == {b \in BOOLEAN : (b /\ p > 0) \/ (~b /\ p < 100)}

-----------------------------------------------------------------------------
(* Input tables *)

\* DIM_CUSTOMERS.json as load_customers() returns it: one customer per segment.
Customers == <<
    [customer_id |-> 1, segment |-> "startup", industry |-> "saas",
     compliance_maturity |-> "beginner", signup_date |-> <<1, 15, 2021>>,
     employee_count |-> 12, annual_revenue |-> 100000],
    [customer_id |-> 2, segment |-> "mid_market", industry |-> "healthtech",
     compliance_maturity |-> "advanced", signup_date |-> <<1, 12, 2022>>,
     employee_count |-> 500, annual_revenue |-> 5000000],
    [customer_id |-> 3, segment |-> "enterprise", industry |-> "fintech",
     compliance_maturity |-> "intermediate", signup_date |-> <<1, 10, 2022>>,
     employee_count |-> 501, annual_revenue |-> 1000000000] >>

Range(seq) == {seq[i] : i \in DOMAIN seq}

-----------------------------------------------------------------------------
(* generate_subscription_events.py *)

\* Faulty variant of get_product_tier_for_segment: every segment is sold the
\* enterprise tier
enterprise_tier_for_segment(segment, is_new) == {"enterprise"}

\* the values get_product_tier_for_segment(segment, is_new) can return
get_product_tier_for_segment(segment, is_new) ==
    IF segment = "startup"
    THEN {"starter"} \cup (IF is_new THEN {} ELSE {"professional"})
    ELSE IF segment = "mid_market"
    THEN (IF is_new THEN {"professional", "enterprise"}
          ELSE choices(<<"professional", "enterprise">>, <<60, 40>>))
    ELSE (IF is_new THEN {"enterprise", "enterprise_plus"}
          ELSE choices(<<"enterprise", "enterprise_plus">>, <<70, 30>>))

base_monthly_amounts(tier) ==
    CASE tier = "starter" -> randint_ends(200, 800)
      [] tier = "professional" -> randint_ends(800, 3000)
      [] tier = "enterprise" -> randint_ends(3000, 15000)
      [] tier = "enterprise_plus" -> randint_ends(15000, 50000)

\* the values get_mrr_for_tier(tier, billing_period) can return
get_mrr_for_tier(tier, billing_period) ==
    {IF billing_period = "monthly" THEN monthly_amount
     ELSE IF billing_period = "quarterly" THEN monthly_amount * 3
     ELSE IF billing_period = "annual" THEN monthly_amount * 12
     ELSE IF billing_period = "upfront" THEN monthly_amount * 24
     ELSE monthly_amount : monthly_amount \in base_monthly_amounts(tier)}

get_billing_period_for_segment(segment) ==
    IF segment = "startup"
    THEN choices(<<"monthly", "quarterly", "annual">>, <<60, 30, 10>>)
    ELSE IF segment = "mid_market"
    THEN choices(<<"monthly", "quarterly", "annual">>, <<20, 50, 30>>)
    ELSE choices(<<"quarterly", "annual", "upfront">>, <<20, 60, 20>>)

\* Faulty variant of get_realistic_contract_length: half-year contracts and
\* three-year contracts in every segment
any_contract_length(segment) == choices(<<6, 12, 36>>, <<30, 50, 20>>)

get_realistic_contract_length(segment) ==
    IF segment = "startup" THEN choices(<<12, 24>>, <<80, 20>>)
    ELSE IF segment = "mid_market" THEN choices(<<12, 24>>, <<60, 40>>)
    ELSE choices(<<12, 24, 36>>, <<30, 50, 20>>)

get_sales_channel(segment, product_tier) ==
    IF segment = "startup"
    THEN choices(<<"self_serve", "inside_sales">>, <<80, 20>>)
    ELSE IF segment = "mid_market"
    THEN choices(<<"self_serve", "inside_sales", "field_sales">>, <<30, 60, 10>>)
    ELSE choices(<<"inside_sales", "field_sales", "partner">>, <<30, 65, 5>>)

get_payment_method(segment) ==
    IF segment = "startup"
    THEN choices(<<"credit_card", "ach">>, <<90, 10>>)
    ELSE IF segment = "mid_market"
    THEN choices(<<"credit_card", "ach", "invoice">>, <<60, 30, 10>>)
    ELSE choices(<<"credit_card", "ach", "wire_transfer", "invoice">>,
                 <<20, 30, 20, 30>>)

\* Faulty variant of calculate_discount: the sum of the discounts is returned
\* without the cap of 5 percent
calculate_discount_uncapped(billing_period, contract_length, segment, event_type) ==
    LET payment == IF billing_period \in {"annual", "upfront"} THEN uniform(20, 50)
                   ELSE IF billing_period = "quarterly" THEN uniform(10, 20)
                   ELSE {0}
        multi_year == IF contract_length >= 24 THEN uniform(10, 30) ELSE {0}
        promo == IF event_type = "new"
                 THEN {IF b THEN u ELSE 0 : b \in coin(15), u \in uniform(10, 20)}
                 ELSE {0}
        volume == IF segment = "enterprise"
                  THEN {IF b THEN u ELSE 0 : b \in coin(30), u \in uniform(10, 20)}
                  ELSE {0}
    IN  {d1 + d2 + d3 + d4 :
            d1 \in payment, d2 \in multi_year, d3 \in promo, d4 \in volume}

\* the values calculate_discount can return, in tenths of a percent
calculate_discount(billing_period, contract_length, segment, event_type) ==
    LET payment == IF billing_period \in {"annual", "upfront"} THEN uniform(20, 50)
                   ELSE IF billing_period = "quarterly" THEN uniform(10, 20)
                   ELSE {0}
        multi_year == IF contract_length >= 24 THEN uniform(10, 30) ELSE {0}
        promo == IF event_type = "new"
                 THEN {IF b THEN u ELSE 0 : b \in coin(15), u \in uniform(10, 20)}
                 ELSE {0}
        volume == IF segment = "enterprise"
                  THEN {IF b THEN u ELSE 0 : b \in coin(30), u \in uniform(10, 20)}
                  ELSE {0}
    IN  {Min(d1 + d2 + d3 + d4, 50) :
            d1 \in payment, d2 \in multi_year, d3 \in promo, d4 \in volume}

tier_hierarchy == <<"starter", "professional", "enterprise", "enterprise_plus">>

\* tier_hierarchy.index(tier), counted from 1
tier_index(tier) == CHOOSE i \in DOMAIN tier_hierarchy : tier_hierarchy[i] = tier

\* Faulty variants of the keys of event_type_weights: a renewal-time draw that
\* can yield a second 'new' event, and one that can yield a 'churn' that does
\* not end the lifecycle.
event_type_keys_with_new == <<"new", "expansion", "downgrade">>

event_type_keys_with_churn == <<"renewal", "expansion", "churn">>

\* list(event_type_weights.keys())
event_type_keys == <<"renewal", "expansion", "downgrade">>

\* the weights of the event type drawn at a contract renewal, in hundredths
event_type_weights(cust) ==
    IF cust.segment \in {"mid_market", "enterprise"}
       /\ cust.compliance_maturity = "advanced"
    THEN [renewal |-> 60, expansion |-> 35, downgrade |-> 5]
    ELSE [renewal |-> 70, expansion |-> 25, downgrade |-> 5]

\* datetime.now() carries a time of day: a midnight d is before it exactly when
\* d is not a later day, and after it exactly when d is a later day.
BeforeNow(d) == d <= current_date
\* Faulty variant of AfterNow: a date counts as later than the generation time
\* only when it is more than a year later
AfterNextYear(d) == d > current_date + 365

AfterNow(d) == d > current_date

\* Faulty variant of days_to_next: a contract that renews on the day it starts
days_to_next_same_day == current_contract_length * 0

\* Faulty variant of days_to_next: half a month per contract month
days_to_next_half_months == current_contract_length * 15

\* days_to_next of the loop body (the same in both branches) and next_event_date
days_to_next == current_contract_length * 30
next_event_date == last_event_date + days_to_next

\* the while condition holds and the body does not break at "reached present day"
AtRenewalBoundary == BeforeNow(last_event_date) /\ ~AfterNow(next_event_date)

\* line 203: the churn roll is made at this renewal date
ChurnRollDue ==
    will_churn /\ next_event_date - parse_date(customer.signup_date) > 365

\* lines 147-183: the NEW event and the tracked state
NewSubscription ==
    /\ script = "generate_subscription_events"
    /\ pc = "start"
    /\ \E churn_draw \in coin(15) : will_churn' = churn_draw
    /\ \E days \in randint(0, 30) \cap NewEventOffsets :
       /\ last_event_date' = parse_date(customer.signup_date) + days
       /\ \E billing_period \in get_billing_period_for_segment(customer.segment) :
          /\ current_billing' = billing_period
          /\ \E product_tier \in get_product_tier_for_segment(customer.segment, TRUE) :
             /\ current_tier' = product_tier
             /\ \E contract_length \in get_realistic_contract_length(customer.segment) :
                /\ current_contract_length' = contract_length
                /\ \E mrr \in get_mrr_for_tier(product_tier, billing_period) :
                   /\ current_mrr' = mrr
                   /\ \E discount \in calculate_discount(billing_period, contract_length,
                                                        customer.segment, "new"),
                         channel \in get_sales_channel(customer.segment, product_tier),
                         method \in get_payment_method(customer.segment) :
                         LET new_event ==
                                 [event_id |-> event_id_counter,
                                  customer_id |-> customer.customer_id,
                                  event_date |-> format_date(last_event_date'),
                                  event_type |-> "new",
                                  product_tier |-> product_tier,
                                  mrr_amount |-> mrr,
                                  billing_period |-> billing_period,
                                  contract_length_months |-> contract_length,
                                  discount_percentage |-> discount,
                                  sales_channel |-> channel,
                                  payment_method |-> method]
                         IN  /\ events' = Append(events, new_event)
                             /\ event_id_counter' = event_id_counter + 1
                             /\ current_event' = new_event
    /\ pc' = "loop"
    /\ UNCHANGED <<script, current_date, customer, rolls, adoptVars, actVars,
                   custVars, qcVars, call>>

\* lines 186, 199-200 and 283: the loop ends and the function returns
LoopExit ==
    /\ script = "generate_subscription_events"
    /\ pc = "loop"
    /\ ~AtRenewalBoundary
    /\ pc' = "done"
    /\ UNCHANGED <<script, current_date, customer, subVars, adoptVars, actVars,
                   custVars, qcVars, call>>

\* lines 202-220: the churn roll succeeds
Churn ==
    /\ script = "generate_subscription_events"
    /\ pc = "loop"
    /\ AtRenewalBoundary
    /\ ChurnRollDue
    /\ TRUE \in coin(20)
    /\ LET churn_event == [event_id |-> event_id_counter,
                           customer_id |-> customer.customer_id,
                           event_date |-> format_date(next_event_date),
                           event_type |-> "churn",
                           product_tier |-> current_tier,
                           mrr_amount |-> 0,
                           billing_period |-> current_billing,
                           contract_length_months |-> 0,
                           discount_percentage |-> 0,
                           sales_channel |-> current_event.sales_channel,
                           payment_method |-> current_event.payment_method]
       IN  /\ events' = Append(events, churn_event)
           /\ event_id_counter' = event_id_counter + 1
    /\ rolls' = Append(rolls, next_event_date)
    /\ pc' = "done"
    /\ UNCHANGED <<script, current_date, customer, will_churn, last_event_date,
                   current_mrr, current_tier, current_billing,
                   current_contract_length, current_event, adoptVars, actVars,
                   custVars, qcVars, call>>

\* Faulty variant of expansion_tier: the tier drawn for the segment is taken
\* as it is, without the upgrade over the current tier
expansion_tier_as_drawn(segment, tier) ==
    get_product_tier_for_segment(segment, FALSE)

\* lines 245-256: the tier and amount of a renewal-time event
expansion_tier(segment, tier) ==
    {IF tier_index(new_tier) <= tier_index(tier)
     THEN tier_hierarchy[Min(tier_index(tier) + 1, 4)]
     ELSE new_tier : new_tier \in get_product_tier_for_segment(segment, FALSE)}

\* Faulty variant of renewal_tier: every renewal-time event upgrades the tier
renewal_tier_always_upgraded(event_type, segment, tier) ==
    expansion_tier(segment, tier)

\* lines 245-252: only an expansion assigns current_tier
renewal_tier(event_type, segment, tier) ==
    IF event_type = "expansion" THEN expansion_tier(segment, tier) ELSE {tier}

renewal_mrr(event_type, new_tier, billing_period, mrr) ==
    IF event_type = "expansion" THEN get_mrr_for_tier(new_tier, billing_period)
    ELSE IF event_type = "downgrade"
    THEN {(mrr * f) \div 100 : f \in uniform(60, 80)}
    ELSE {(mrr * f) \div 100 : f \in uniform(100, 110)}

\* lines 202-281: no churn (no roll, or the roll fails); a renewal-time event
ContractRenewal ==
    /\ script = "generate_subscription_events"
    /\ pc = "loop"
    /\ AtRenewalBoundary
    /\ ChurnRollDue => FALSE \in coin(20)
    /\ rolls' = IF ChurnRollDue THEN Append(rolls, next_event_date) ELSE rolls
    /\ last_event_date' = next_event_date
    /\ \E new_contract_length \in get_realistic_contract_length(customer.segment) :
       /\ current_contract_length' = new_contract_length
       /\ \E event_type \in choices(event_type_keys,
                                    <<event_type_weights(customer).renewal,
                                      event_type_weights(customer).expansion,
                                      event_type_weights(customer).downgrade>>) :
          \E new_tier \in renewal_tier(event_type, customer.segment, current_tier) :
          /\ current_tier' = new_tier
          /\ \E new_mrr \in renewal_mrr(event_type, new_tier, current_billing,
                                        current_mrr) :
             /\ current_mrr' = new_mrr
             /\ \E discount \in calculate_discount(current_billing, new_contract_length,
                                                  customer.segment, event_type) :
                LET event == [event_id |-> event_id_counter,
                              customer_id |-> customer.customer_id,
                              event_date |-> format_date(next_event_date),
                              event_type |-> event_type,
                              product_tier |-> new_tier,
                              mrr_amount |-> new_mrr,
                              billing_period |-> current_billing,
                              contract_length_months |-> new_contract_length,
                              discount_percentage |-> discount,
                              sales_channel |-> current_event.sales_channel,
                              payment_method |-> current_event.payment_method]
                IN  /\ events' = Append(events, event)
                    /\ event_id_counter' = event_id_counter + 1
                    /\ current_event' = event
    /\ pc' = "loop"
    /\ UNCHANGED <<script, current_date, customer, will_churn, current_billing,
                   adoptVars, actVars, custVars, qcVars, call>>

\* the variables of generate_subscription_lifecycle before it is entered
NoEvent == [event_id |-> 0]

IdleSubscription ==
    /\ will_churn = FALSE
    /\ events = <<>>
    /\ event_id_counter = 0
    /\ last_event_date = 0
    /\ current_mrr = 0
    /\ current_tier = "none"
    /\ current_billing = "none"
    /\ current_contract_length = 0
    /\ current_event = NoEvent
    /\ rolls = <<>>

NextSubscription == NewSubscription \/ LoopExit \/ Churn \/ ContractRenewal

-----------------------------------------------------------------------------
(* generate_frameworks.py: the reference table *)

\* generate_compliance_frameworks(): the fields the generators read
generate_compliance_frameworks == <<
    [framework_id |-> 1, framework_name |-> "SOC2_Type_I",
     complexity_score |-> 4, avg_completion_days |-> 90],
    [framework_id |-> 2, framework_name |-> "SOC2_Type_II",
     complexity_score |-> 7, avg_completion_days |-> 180],
    [framework_id |-> 3, framework_name |-> "ISO27001",
     complexity_score |-> 8, avg_completion_days |-> 240],
    [framework_id |-> 4, framework_name |-> "HIPAA",
     complexity_score |-> 6, avg_completion_days |-> 150],
    [framework_id |-> 5, framework_name |-> "GDPR",
     complexity_score |-> 7, avg_completion_days |-> 120],
    [framework_id |-> 6, framework_name |-> "PCI_DSS",
     complexity_score |-> 5, avg_completion_days |-> 90],
    [framework_id |-> 7, framework_name |-> "FedRAMP",
     complexity_score |-> 9, avg_completion_days |-> 365],
    [framework_id |-> 8, framework_name |-> "NIST_CSF",
     complexity_score |-> 6, avg_completion_days |-> 180] >>

\* DIM_COMPLIANCE_FRAMEWORKS.json as load_frameworks() returns it
Frameworks == generate_compliance_frameworks

-----------------------------------------------------------------------------
(* generate_framework_adoptions.py *)

\* Largest number of frameworks one customer adopts in the modelled runs.
MaxAdopted == 2

\* Probabilities are held in millionths: the products of the two-decimal rates
\* with 1.2, 0.8, 1.15, 0.7 and 0.3 are then exact integers.
Rate(percent) == percent * 10000

base_rates(framework_name) ==
    CASE framework_name = "SOC2_Type_I" -> Rate(95)
      [] framework_name = "SOC2_Type_II" -> Rate(70)
      [] framework_name = "ISO27001" -> Rate(40)
      [] framework_name = "HIPAA" -> Rate(5)
      [] framework_name = "GDPR" -> Rate(35)
      [] framework_name = "PCI_DSS" -> Rate(15)
      [] framework_name = "FedRAMP" -> Rate(2)
      [] framework_name = "NIST_CSF" -> Rate(75)
      [] OTHER -> Rate(10)

\* industry_multipliers[industry][framework_name], or -1 when there is no entry
industry_multipliers(industry, framework_name) ==
    CASE industry = "healthtech" /\ framework_name = "HIPAA" -> Rate(95)
      [] industry = "healthtech" /\ framework_name = "SOC2_Type_I" -> Rate(98)
      [] industry = "healthtech" /\ framework_name = "SOC2_Type_II" -> Rate(85)
      [] industry = "healthtech" /\ framework_name = "GDPR" -> Rate(45)
      [] industry = "fintech" /\ framework_name = "PCI_DSS" -> Rate(90)
      [] industry = "fintech" /\ framework_name = "SOC2_Type_I" -> Rate(98)
      [] industry = "fintech" /\ framework_name = "SOC2_Type_II" -> Rate(85)
      [] industry = "fintech" /\ framework_name = "FedRAMP" -> Rate(15)
      [] industry = "ecommerce" /\ framework_name = "PCI_DSS" -> Rate(90)
      [] industry = "ecommerce" /\ framework_name = "GDPR" -> Rate(50)
      [] industry = "ecommerce" /\ framework_name = "SOC2_Type_I" -> Rate(95)
      [] industry = "government_contractors" /\ framework_name = "FedRAMP" -> Rate(80)
      [] industry = "government_contractors" /\ framework_name = "NIST_CSF" -> Rate(95)
      [] industry = "government_contractors" /\ framework_name = "SOC2_Type_I" -> Rate(90)
      [] industry = "saas" /\ framework_name = "SOC2_Type_I" -> Rate(98)
      [] industry = "saas" /\ framework_name = "SOC2_Type_II" -> Rate(80)
      [] industry = "saas" /\ framework_name = "ISO27001" -> Rate(55)
      [] industry = "saas" /\ framework_name = "GDPR" -> Rate(45)
      [] OTHER -> -1

\* Faulty variant of get_framework_adoption_probability: the value is
\* returned without the last min(probability, 0.95)
adoption_probability_uncapped(cust, framework_name) ==
    LET override == industry_multipliers(cust.industry, framework_name)
        p0 == IF override # -1 THEN override ELSE base_rates(framework_name)
        p1 == IF cust.segment = "enterprise" THEN Min((p0 * 12) \div 10, Rate(95))
              ELSE IF cust.segment = "startup"
                      /\ framework_name \notin {"SOC2_Type_I", "NIST_CSF"}
              THEN (p0 * 8) \div 10
              ELSE p0
    IN  IF cust.compliance_maturity = "advanced"
        THEN Min((p1 * 115) \div 100, Rate(95))
        ELSE IF cust.compliance_maturity = "beginner"
                /\ framework_name # "SOC2_Type_I"
        THEN (p1 * 7) \div 10
        ELSE p1

get_framework_adoption_probability(cust, framework_name) ==
    LET override == industry_multipliers(cust.industry, framework_name)
        p0 == IF override # -1 THEN override ELSE base_rates(framework_name)
        p1 == IF cust.segment = "enterprise" THEN Min((p0 * 12) \div 10, Rate(95))
              ELSE IF cust.segment = "startup"
                      /\ framework_name \notin {"SOC2_Type_I", "NIST_CSF"}
              THEN (p0 * 8) \div 10
              ELSE p0
        p2 == IF cust.compliance_maturity = "advanced"
              THEN Min((p1 * 115) \div 100, Rate(95))
              ELSE IF cust.compliance_maturity = "beginner"
                      /\ framework_name # "SOC2_Type_I"
              THEN (p1 * 7) \div 10
              ELSE p1
    IN  Min(p2, Rate(95))

\* random.random() < probability, for a probability in millionths
flip(probability) ==
    {b \in BOOLEAN : (b /\ probability > 0) \/ (~b /\ probability < Rate(100))}

\* lines 123-126: the probability the coin of framework k is flipped with, given
\* the outcomes of the earlier coins
flip_probability(cust, frameworks, flips, k) ==
    LET framework_name == frameworks[k].framework_name
        probability == get_framework_adoption_probability(cust, framework_name)
        soc2_type_i_adopted ==
            \E j \in 1 .. (k - 1) :
                flips[j] /\ frameworks[j].framework_name = "SOC2_Type_I"
    IN  IF framework_name = "SOC2_Type_II" /\ ~soc2_type_i_adopted
        THEN (probability * 3) \div 10
        ELSE probability

\* the frameworks whose coin came up, in table order
RECURSIVE Picked(_, _, _)
Picked(frameworks, flips, k) ==
    IF k > Len(frameworks) THEN <<>>
    ELSE (IF flips[k] THEN <<frameworks[k]>> ELSE <<>>)
             \o Picked(frameworks, flips, k + 1)

\* next(f for f in frameworks if f['framework_name'] == name)
first_named(frameworks, name) ==
    frameworks[CHOOSE k \in DOMAIN frameworks :
                  /\ frameworks[k].framework_name = name
                  /\ \A j \in 1 .. (k - 1) : frameworks[j].framework_name # name]

\* Faulty variant of forced_adoptions: nothing is forced on a customer whose
\* coins all failed
no_forced_adoptions(frameworks) == {<<>>}

\* lines 135-144: the adoptions forced on a customer whose coins all failed
forced_adoptions(frameworks) ==
    {<<first_named(frameworks, "SOC2_Type_I")>>
        \o (IF b THEN <<first_named(frameworks, "NIST_CSF")>> ELSE <<>>) :
     b \in coin(70)}

\* the lists determine_framework_adoptions_for_customer can return
determine_framework_adoptions_for_customer(cust, frameworks) ==
    UNION {LET picked == Picked(frameworks, flips, 1)
           IN  IF Len(picked) = 0 THEN forced_adoptions(frameworks)
               ELSE {picked} :
           flips \in {f \in [DOMAIN frameworks -> BOOLEAN] :
                        /\ Cardinality({k \in DOMAIN frameworks : f[k]}) <= MaxAdopted
                        /\ \A k \in DOMAIN frameworks :
                              f[k] \in flip(flip_probability(cust, frameworks, f, k))}}

\* Faulty variant of generate_adoption_dates: the completion date is counted
\* from the signup date, not from the start date
adoption_dates_from_signup(cust, framework) ==
    {<<parse_date(cust.signup_date) + days_after_signup,
       parse_date(cust.signup_date)
           + Max(framework.avg_completion_days + variance, 30)>> :
         days_after_signup \in randint_ends(0, 365),
         variance \in randint_ends(-30, 30)}

\* Faulty variant of generate_adoption_dates: the average completion days of
\* the framework are taken for every maturity
adoption_dates_any_maturity(cust, framework) ==
    {LET start_date == parse_date(cust.signup_date) + days_after_signup
         completion_days == Max(framework.avg_completion_days + variance, 30)
     IN  <<start_date, start_date + completion_days>> :
     days_after_signup \in randint_ends(0, 365),
     variance \in randint_ends(-30, 30)}

\* the (start_date, completion_date) pairs generate_adoption_dates can return
generate_adoption_dates(cust, framework) ==
    LET signup_date == parse_date(cust.signup_date)
        base_completion_days == framework.avg_completion_days
        maturity == cust.compliance_maturity
        scaled == IF maturity = "advanced" THEN (base_completion_days * 8) \div 10
                  ELSE IF maturity = "beginner"
                  THEN (base_completion_days * 13) \div 10
                  ELSE base_completion_days
    IN  {LET start_date == signup_date + days_after_signup
             completion_days == Max(scaled + variance, 30)
         IN  <<start_date, start_date + completion_days>> :
         days_after_signup \in randint_ends(0, 365),
         variance \in randint_ends(-30, 30)}

\* the values determine_status(completion_date) can return
determine_status(completion_date) ==
    IF AfterNow(completion_date) THEN {"active"}
    ELSE choices(<<"completed", "certified">>, <<67, 33>>)

\* the values calculate_audit_score can return
calculate_audit_score(cust, framework) ==
    LET maturity == cust.compliance_maturity
        complexity == framework.complexity_score
        base_range == IF maturity = "advanced" THEN <<85, 98>>
                      ELSE IF maturity = "intermediate" THEN <<75, 90>>
                      ELSE <<65, 85>>
        complexity_penalty == (complexity - 5) * 2
        min_score == Max(base_range[1] - complexity_penalty, 50)
        max_score == Max(base_range[2] - complexity_penalty, min_score + 10)
    IN  randint_ends(min_score, max_score)

\* line 286: the adopted frameworks of the customer are determined
DetermineAdoptions ==
    /\ script = "generate_framework_adoptions"
    /\ pc = "determine"
    /\ customer_frameworks'
           \in determine_framework_adoptions_for_customer(customer, Frameworks)
    /\ pc' = "adopt"
    /\ UNCHANGED <<script, current_date, customer, adoptions, adoption_id_counter,
                   subVars, actVars, custVars, qcVars, call>>

\* lines 288-307: one pass of the loop over customer_frameworks.  The draws of
\* hours_saved, implementation_cost and automation_level, which nothing reads
\* back, are left out of the record.
AdoptFramework ==
    /\ script = "generate_framework_adoptions"
    /\ pc = "adopt"
    /\ Len(adoptions) < Len(customer_frameworks)
    /\ LET framework == customer_frameworks[Len(adoptions) + 1]
       IN  \E dates \in generate_adoption_dates(customer, framework) :
           \E status \in determine_status(dates[2]),
              audit_score \in calculate_audit_score(customer, framework) :
              LET adoption == [adoption_id |-> adoption_id_counter,
                               customer_id |-> customer.customer_id,
                               framework_id |-> framework.framework_id,
                               start_date |-> format_date(dates[1]),
                               completion_date |-> format_date(dates[2]),
                               status |-> status,
                               audit_score |-> audit_score]
              IN  /\ adoptions' = Append(adoptions, adoption)
                  /\ adoption_id_counter' = adoption_id_counter + 1
    /\ UNCHANGED <<script, pc, current_date, customer, customer_frameworks,
                   subVars, actVars, custVars, qcVars, call>>

\* the loop over customer_frameworks is exhausted
AdoptionsDone ==
    /\ script = "generate_framework_adoptions"
    /\ pc = "adopt"
    /\ Len(adoptions) = Len(customer_frameworks)
    /\ pc' = "done"
    /\ UNCHANGED <<script, current_date, customer, subVars, adoptVars, actVars,
                   custVars, qcVars, call>>

IdleAdoptions ==
    /\ customer_frameworks = <<>>
    /\ adoptions = <<>>
    /\ adoption_id_counter = 0

NextAdoptions == DetermineAdoptions \/ AdoptFramework \/ AdoptionsDone

-----------------------------------------------------------------------------
(* generate_compliance_activities.py *)

\* Largest number of activities generated for one adoption in the modelled runs.
MaxActivities == 2

\* a dict.get() that finds nothing
None == [is_none |-> TRUE]

\* Faulty variant of lookup: a missing id falls back on the first record
lookup_or_first(table, key, id) ==
    IF \E k \in DOMAIN table : table[k][key] = id
    THEN table[CHOOSE k \in DOMAIN table :
                  /\ table[k][key] = id
                  /\ \A j \in DOMAIN table : table[j][key] = id => j <= k]
    ELSE table[1]

\* {r[key]: r for r in table}.get(id): the last record of the table with the id
lookup(table, key, id) ==
    IF \E k \in DOMAIN table : table[k][key] = id
    THEN table[CHOOSE k \in DOMAIN table :
                  /\ table[k][key] = id
                  /\ \A j \in DOMAIN table : table[j][key] = id => j <= k]
    ELSE None

\* int(base_activities * multiplier), the multiplier in tenths.  The double
\* product of 90 or 180 with 0.7 or 1.4 falls just below the exact integer and
\* truncates one lower; every other product of the catalog's complexity scores
\* truncates as the exact quotient does.
int_times(base_activities, multiplier) ==
    IF base_activities \in {90, 180} /\ multiplier \in {7, 14}
    THEN (base_activities * multiplier) \div 10 - 1
    ELSE (base_activities * multiplier) \div 10

\* the values calculate_activities_per_adoption can return
calculate_activities_per_adoption(framework, cust) ==
    LET multiplier == CASE cust.segment = "startup" -> 7
                        [] cust.segment = "mid_market" -> 10
                        [] cust.segment = "enterprise" -> 14
                        [] OTHER -> 10
    IN  {Max((int_times(framework.complexity_score * per_point, multiplier)
                 * variance) \div 100, 5) :
         per_point \in randint_ends(10, 20), variance \in uniform(80, 120)}

activity_phases == choices(<<"start", "middle", "completion", "post">>,
                           <<40, 20, 30, 10>>)

\* int(total_days * tenths / 10): int() truncates toward zero
int_fraction(total_days, tenths) ==
    IF total_days >= 0 THEN (total_days * tenths) \div 10
    ELSE -(((-total_days) * tenths) \div 10)

\* Faulty variant of phase_offsets: the post-completion phase runs 90 days
\* past the end of the timeline
phase_offsets_past_end(phase, start_date, completion_date) ==
    randint_ends(0, completion_date + 180 - start_date)

\* lines 157-179: the days_offset values one phase can draw, each randint range
\* sampled at its end points
phase_offsets(phase, start_date, completion_date) ==
    LET end_date == completion_date + 90
        total_days == end_date - start_date
        completion_offset == completion_date - start_date
    IN  IF phase = "start"
        THEN randint_ends(0, Max(1, int_fraction(total_days, 2)))
        ELSE IF phase = "middle"
        THEN LET start_offset == int_fraction(total_days, 2)
                 end_offset == Max(start_offset + 1, int_fraction(total_days, 6))
             IN  randint_ends(start_offset, end_offset)
        ELSE IF phase = "completion"
        THEN LET start_offset == int_fraction(total_days, 6)
                 end_offset == Max(start_offset + 1, completion_offset)
             IN  randint_ends(start_offset, end_offset)
        ELSE LET end_offset == Max(completion_offset + 1, total_days)
             IN  randint_ends(completion_offset, end_offset)

\* the (phase, days_offset) sequences the loop of generate_activity_dates can draw
activity_draws(adoption, num_activities) ==
    LET start_date == parse_date(adoption.start_date)
        completion_date == parse_date(adoption.completion_date)
        one == UNION {{[phase |-> phase, days_offset |-> days_offset] :
                          days_offset \in phase_offsets(phase, start_date,
                                                        completion_date)} :
                      phase \in activity_phases}
    IN  [1 .. num_activities -> one]

\* lines 181-184: the sorted dates generate_activity_dates returns for the draws
generate_activity_dates(adoption, drawn) ==
    SortSeq([k \in DOMAIN drawn |->
                parse_date(adoption.start_date) + drawn[k].days_offset],
            LAMBDA a, b : a < b)

\* generate_activities_for_adoption: one record per date.  The draws of the
\* activity's type, category, flags, duration and risk level, which nothing
\* reads back, are left out of the record.
generate_activities_for_adoption(adoption, activity_dates, counter) ==
    [k \in DOMAIN activity_dates |->
        [activity_id |-> counter + (k - 1),
         customer_id |-> adoption.customer_id,
         framework_id |-> adoption.framework_id,
         adoption_id |-> adoption.adoption_id,
         activity_date |-> format_date(activity_dates[k])]]

\* `if framework and customer`
resolves(framework, cust) == framework # None /\ cust # None

\* lines 269-280: one pass of the loop over the loaded adoptions
ProcessAdoption ==
    /\ script = "generate_compliance_activities"
    /\ pc = "adoptions"
    /\ adoption_index <= Len(loaded_adoptions)
    /\ LET adoption == loaded_adoptions[adoption_index]
           framework == lookup(Frameworks, "framework_id", adoption.framework_id)
           cust == lookup(Customers, "customer_id", adoption.customer_id)
       IN  IF resolves(framework, cust)
           THEN \E num_activities
                       \in {Min(count, MaxActivities) :
                               count \in calculate_activities_per_adoption(
                                             framework, cust)} :
                \E drawn \in activity_draws(adoption, num_activities) :
                   LET activity_dates == generate_activity_dates(adoption, drawn)
                       activities == generate_activities_for_adoption(
                                         adoption, activity_dates,
                                         activity_id_counter)
                   IN  /\ draws' = drawn
                       /\ all_activities' = all_activities \o activities
                       /\ activity_id_counter'
                              = activity_id_counter + Len(activities)
           ELSE UNCHANGED <<draws, all_activities, activity_id_counter>>
    /\ adoption_index' = adoption_index + 1
    /\ UNCHANGED <<script, pc, current_date, customer, loaded_adoptions, subVars,
                   adoptVars, custVars, qcVars, call>>

\* line 282: the loop is exhausted and all_activities is returned
ActivitiesDone ==
    /\ script = "generate_compliance_activities"
    /\ pc = "adoptions"
    /\ adoption_index > Len(loaded_adoptions)
    /\ pc' = "done"
    /\ UNCHANGED <<script, current_date, customer, subVars, adoptVars, actVars,
                   custVars, qcVars, call>>

IdleActivities ==
    /\ loaded_adoptions = <<>>
    /\ adoption_index = 0
    /\ draws = <<>>
    /\ all_activities = <<>>
    /\ activity_id_counter = 0

NextActivities == ProcessAdoption \/ ActivitiesDone

-----------------------------------------------------------------------------
(* generate_customers.py *)

Segments == {"startup", "mid_market", "enterprise"}

\* Faulty variant of employee_count_for: one range for every segment
employee_count_any(segment) == randint_ends(1, 10000)

\* the employee_count fix_employee_count_by_segment draws for a segment
employee_count_for(segment) ==
    IF segment = "startup" THEN randint_ends(1, 50)
    ELSE IF segment = "mid_market" THEN randint_ends(51, 500)
    ELSE randint_ends(501, 10000)

\* the annual_revenue fix_revenue_by_segment draws for a segment
annual_revenue_for(segment) ==
    IF segment = "startup" THEN randint_ends(100000, 5000000)
    ELSE IF segment = "mid_market" THEN randint_ends(5000000, 100000000)
    ELSE randint_ends(100000000, 1000000000)

\* the lists a loop that redraws one field of every customer can leave, the
\* k-th customer's draw taken from values[k]
redrawn(list, field, values) ==
    {[k \in DOMAIN list |-> [list[k] EXCEPT ![field] = pick[k]]] :
        pick \in {f \in [DOMAIN list -> UNION {values[k] : k \in DOMAIN list}] :
                     \A k \in DOMAIN list : f[k] \in values[k]}}

\* lines 23-35
expand_signup_dates_5_years(list) ==
    LET start_date == parse_date(<<1, 1, 2020>>)
        end_date == parse_date(<<12, 31, 2024>>)
        date_range == end_date - start_date
    IN  redrawn(list, "signup_date",
                [k \in DOMAIN list |->
                    {format_date(start_date + random_days) :
                        random_days \in randint_ends(0, date_range)}])

\* lines 37-52
fix_employee_count_by_segment(list) ==
    redrawn(list, "employee_count",
            [k \in DOMAIN list |-> employee_count_for(list[k].segment)])

\* lines 54-69
fix_revenue_by_segment(list) ==
    redrawn(list, "annual_revenue",
            [k \in DOMAIN list |-> annual_revenue_for(list[k].segment)])

\* lines 71-75
add_sequential_ids(list) ==
    [k \in DOMAIN list |-> [customer_id |-> k] @@ list[k]]

\* lines 92-116: the two violation counts of validate_customer_data
employee_violation(c) ==
    \/ c.segment = "startup" /\ ~(1 <= c.employee_count /\ c.employee_count <= 50)
    \/ c.segment = "mid_market"
          /\ ~(51 <= c.employee_count /\ c.employee_count <= 500)
    \/ c.segment = "enterprise"
          /\ ~(501 <= c.employee_count /\ c.employee_count <= 10000)

revenue_violation(c) ==
    \/ c.segment = "startup"
          /\ ~(100000 <= c.annual_revenue /\ c.annual_revenue <= 5000000)
    \/ c.segment = "mid_market"
          /\ ~(5000000 <= c.annual_revenue /\ c.annual_revenue <= 100000000)
    \/ c.segment = "enterprise"
          /\ ~(100000000 <= c.annual_revenue /\ c.annual_revenue <= 1000000000)

validate_customer_data(list) ==
    [total_customers |-> Len(list),
     employee_violations |->
         Cardinality({k \in DOMAIN list : employee_violation(list[k])}),
     revenue_violations |->
         Cardinality({k \in DOMAIN list : revenue_violation(list[k])})]

\* main, lines 186-199: the steps of the script, in order
ExpandSignupDates ==
    /\ script = "generate_customers"
    /\ pc = "expand_signup_dates"
    /\ customers' \in expand_signup_dates_5_years(customers)
    /\ pc' = "fix_employee_count"
    /\ UNCHANGED <<script, current_date, customer, validation, subVars,
                   adoptVars, actVars, qcVars, call>>

FixEmployeeCount ==
    /\ script = "generate_customers"
    /\ pc = "fix_employee_count"
    /\ customers' \in fix_employee_count_by_segment(customers)
    /\ pc' = "fix_revenue"
    /\ UNCHANGED <<script, current_date, customer, validation, subVars,
                   adoptVars, actVars, qcVars, call>>

FixRevenue ==
    /\ script = "generate_customers"
    /\ pc = "fix_revenue"
    /\ customers' \in fix_revenue_by_segment(customers)
    /\ pc' = "add_ids"
    /\ UNCHANGED <<script, current_date, customer, validation, subVars,
                   adoptVars, actVars, qcVars, call>>

AddSequentialIds ==
    /\ script = "generate_customers"
    /\ pc = "add_ids"
    /\ customers' = add_sequential_ids(customers)
    /\ pc' = "validate"
    /\ UNCHANGED <<script, current_date, customer, validation, subVars,
                   adoptVars, actVars, qcVars, call>>

ValidateCustomers ==
    /\ script = "generate_customers"
    /\ pc = "validate"
    /\ validation' = validate_customer_data(customers)
    /\ pc' = "done"
    /\ UNCHANGED <<script, current_date, customer, customers, subVars,
                   adoptVars, actVars, qcVars, call>>

NoValidation == [total_customers |-> 0]

IdleCustomers ==
    /\ customers = <<>>
    /\ validation = NoValidation

NextCustomers ==
    ExpandSignupDates \/ FixEmployeeCount \/ FixRevenue \/ AddSequentialIds
        \/ ValidateCustomers

-----------------------------------------------------------------------------
(* quality_checks.py *)

FileNames == {"customers", "frameworks", "events", "adoptions", "activities"}

\* {r.get(key) for r in table}
ids(table, key) == {table[k][key] : k \in DOMAIN table}

\* an input file that open() does not find, and one json.load() cannot decode
Missing == [state |-> "missing"]

Malformed == [state |-> "malformed"]

\* an input file holding the JSON list content
Readable(content) == [state |-> "ok", content |-> content]

\* load_json_data: the list of the file, or [] after the error is printed
load_json_data(file) == IF file.state = "ok" THEN file.content ELSE <<>>

\* validate_dim_customers: the result, and the lists as the call leaves them
\* (the function only reads its argument).  A date span under 4 * 365 days
\* is reported as too narrow.
validate_dim_customers(t) ==
    LET list == t.customers
        days == {parse_date(list[k].signup_date) : k \in DOMAIN list}
        min_date == CHOOSE d \in days : \A e \in days : d <= e
        max_date == CHOOSE d \in days : \A e \in days : d >= e
        employee_violations ==
            Cardinality({k \in DOMAIN list : employee_violation(list[k])})
        revenue_violations ==
            Cardinality({k \in DOMAIN list : revenue_violation(list[k])})
    IN  [result |->
            IF list = <<>> THEN [error |-> TRUE]
            ELSE [error |-> FALSE,
                  table |-> "DIM_CUSTOMERS",
                  total_records |-> Len(list),
                  employee_violations |-> employee_violations,
                  revenue_violations |-> revenue_violations,
                  issues |->
                      (IF employee_violations > 0
                       THEN {"invalid employee counts"} ELSE {})
                      \cup (IF revenue_violations > 0
                            THEN {"invalid revenue"} ELSE {})
                      \cup (IF max_date - min_date < 4 * 365
                            THEN {"date range too narrow"} ELSE {})],
         tables |-> t]

expected_frameworks ==
    {"SOC2_Type_I", "SOC2_Type_II", "ISO27001", "HIPAA", "GDPR", "PCI_DSS",
     "FedRAMP", "NIST_CSF"}

\* validate_dim_frameworks.  The check of the required fields is left out: the
\* framework records of the model carry only the fields the generators read.
validate_dim_frameworks(t) ==
    LET list == t.frameworks
        actual_frameworks == {list[k].framework_name : k \in DOMAIN list}
    IN  [result |->
            IF list = <<>> THEN [error |-> TRUE]
            ELSE [error |-> FALSE,
                  table |-> "DIM_COMPLIANCE_FRAMEWORKS",
                  total_records |-> Len(list),
                  actual_frameworks |-> actual_frameworks,
                  issues |->
                      (IF Len(list) # 8 THEN {"expected 8 frameworks"} ELSE {})
                      \cup (IF expected_frameworks \ actual_frameworks # {}
                            THEN {"missing frameworks"} ELSE {})
                      \cup (IF actual_frameworks \ expected_frameworks # {}
                            THEN {"unexpected frameworks"} ELSE {})],
         tables |-> t]

\* sorted(customer_events, key=date)[0]: the position in the event list of
\* the earliest event of a customer, the first of them in list order
first_event(list, customer_id) ==
    CHOOSE k \in DOMAIN list :
        /\ list[k].customer_id = customer_id
        /\ \A j \in DOMAIN list :
              list[j].customer_id = customer_id =>
                  \/ parse_date(list[k].event_date) < parse_date(list[j].event_date)
                  \/ /\ parse_date(list[k].event_date)
                            = parse_date(list[j].event_date)
                     /\ k <= j

\* Faulty variant of validate_fact_subscription_events: the event list is
\* sorted by date in place
validate_fact_subscription_events_sorting(t) ==
    [result |-> [error |-> FALSE],
     tables |-> [t EXCEPT !.events =
                    SortSeq(t.events,
                            LAMBDA a, b : parse_date(a.event_date)
                                              < parse_date(b.event_date))]]

\* validate_fact_subscription_events
validate_fact_subscription_events(t) ==
    LET list == t.events
        customer_ids == ids(t.customers, "customer_id")
        customers_with_events == ids(list, "customer_id")
        unrealistic_contracts ==
            Cardinality({k \in DOMAIN list :
                            /\ list[k].contract_length_months > 0
                            /\ list[k].contract_length_months < 12})
        invalid_first_events ==
            Cardinality({c \in customers_with_events :
                            list[first_event(list, c)].event_type # "new"})
    IN  [result |->
            IF list = <<>> THEN [error |-> TRUE]
            ELSE [error |-> FALSE,
                  table |-> "FACT_SUBSCRIPTION_EVENTS",
                  total_records |-> Len(list),
                  customers_with_events |-> Cardinality(customers_with_events),
                  contract_lengths |->
                      {list[k].contract_length_months :
                          k \in {j \in DOMAIN list : list[j].event_type # "churn"}},
                  unrealistic_contracts |-> unrealistic_contracts,
                  issues |->
                      (IF customer_ids \ customers_with_events # {}
                       THEN {"customers without events"} ELSE {})
                      \cup (IF unrealistic_contracts > 0
                            THEN {"unrealistic contract lengths"} ELSE {})
                      \cup (IF invalid_first_events > 0
                            THEN {"first event not new"} ELSE {})],
         tables |-> t]

\* validate_fact_framework_adoptions
validate_fact_framework_adoptions(t) ==
    LET list == t.adoptions
        customer_ids == ids(t.customers, "customer_id")
        customers_with_adoptions == ids(list, "customer_id")
        temporal_issues ==
            Cardinality({k \in DOMAIN list :
                            parse_date(list[k].completion_date)
                                <= parse_date(list[k].start_date)})
    IN  [result |->
            IF list = <<>> THEN [error |-> TRUE]
            ELSE [error |-> FALSE,
                  table |-> "FACT_FRAMEWORK_ADOPTIONS",
                  total_records |-> Len(list),
                  customers_with_adoptions |->
                      Cardinality(customers_with_adoptions),
                  temporal_issues |-> temporal_issues,
                  issues |->
                      (IF customer_ids \ customers_with_adoptions # {}
                       THEN {"customers without adoptions"} ELSE {})
                      \cup (IF temporal_issues > 0
                            THEN {"invalid date sequences"} ELSE {})],
         tables |-> t]

\* validate_fact_compliance_activities.  The rates are compared as integers:
\* automated / total > 0.8, successful / total < 0.7 or > 0.95.
validate_fact_compliance_activities(t) ==
    LET list == t.activities
        total_activities == Len(list)
        automated_count ==
            Cardinality({k \in DOMAIN list : list[k].automated_flag})
        successful_count ==
            Cardinality({k \in DOMAIN list : list[k].success_flag})
        orphaned_activities ==
            ids(list, "adoption_id") \ ids(t.adoptions, "adoption_id")
    IN  [result |->
            IF list = <<>> THEN [error |-> TRUE]
            ELSE [error |-> FALSE,
                  table |-> "FACT_COMPLIANCE_ACTIVITIES",
                  total_records |-> total_activities,
                  unique_customers |-> Cardinality(ids(list, "customer_id")),
                  unique_adoptions |-> Cardinality(ids(list, "adoption_id")),
                  issues |->
                      (IF 5 * automated_count > 4 * total_activities
                       THEN {"automation rate unusually high"} ELSE {})
                      \cup (IF \/ 10 * successful_count < 7 * total_activities
                               \/ 20 * successful_count > 19 * total_activities
                            THEN {"success rate outside expected range"}
                            ELSE {})
                      \cup (IF orphaned_activities # {}
                            THEN {"activities reference non-existent adoptions"}
                            ELSE {})],
         tables |-> t]

\* validate_foreign_keys
validate_foreign_keys(t) ==
    LET customer_ids == ids(t.customers, "customer_id")
        framework_ids == ids(t.frameworks, "framework_id")
        adoption_ids == ids(t.adoptions, "adoption_id")
        orphaned_events == ids(t.events, "customer_id") \ customer_ids
        orphaned_adoptions == ids(t.adoptions, "customer_id") \ customer_ids
        orphaned_activity_customers ==
            ids(t.activities, "customer_id") \ customer_ids
        orphaned_adoption_frameworks ==
            ids(t.adoptions, "framework_id") \ framework_ids
        orphaned_activity_frameworks ==
            ids(t.activities, "framework_id") \ framework_ids
        orphaned_activity_adoptions ==
            ids(t.activities, "adoption_id") \ adoption_ids
    IN  [result |->
            [error |-> FALSE,
             foreign_key_checks |-> "All table relationships",
             orphaned_events |-> Cardinality(orphaned_events),
             orphaned_adoptions |-> Cardinality(orphaned_adoptions),
             orphaned_activity_customers |->
                 Cardinality(orphaned_activity_customers),
             orphaned_adoption_frameworks |->
                 Cardinality(orphaned_adoption_frameworks),
             orphaned_activity_frameworks |->
                 Cardinality(orphaned_activity_frameworks),
             orphaned_activity_adoptions |->
                 Cardinality(orphaned_activity_adoptions),
             framework_ids |-> framework_ids,
             issues |->
                 (IF orphaned_events # {}
                  THEN {"events reference non-existent customers"} ELSE {})
                 \cup (IF orphaned_adoptions # {}
                       THEN {"adoptions reference non-existent customers"}
                       ELSE {})
                 \cup (IF orphaned_activity_customers # {}
                       THEN {"activities reference non-existent customers"}
                       ELSE {})
                 \cup (IF orphaned_adoption_frameworks # {}
                       THEN {"adoptions reference non-existent frameworks"}
                       ELSE {})
                 \cup (IF orphaned_activity_frameworks # {}
                       THEN {"activities reference non-existent frameworks"}
                       ELSE {})
                 \cup (IF orphaned_activity_adoptions # {}
                       THEN {"activities reference non-existent adoptions"}
                       ELSE {})
                 \cup (IF Cardinality(framework_ids) # 8
                       THEN {"framework ids not sequential 1-8"} ELSE {})],
         tables |-> t]

\* Faulty variant of calculate_annualized_amount: an upfront amount is taken
\* as an annual one
annualized_amount_upfront_as_annual(mrr_amount, billing_period) ==
    IF billing_period = "monthly" THEN 2 * (mrr_amount * 12)
    ELSE IF billing_period = "quarterly" THEN 2 * (mrr_amount * 4)
    ELSE 2 * mrr_amount

\* calculate_annualized_amount, in halves of a currency unit (an upfront amount
\* is divided by 2)
calculate_annualized_amount(mrr_amount, billing_period) ==
    IF billing_period = "monthly" THEN 2 * (mrr_amount * 12)
    ELSE IF billing_period = "quarterly" THEN 2 * (mrr_amount * 4)
    ELSE IF billing_period = "annual" THEN 2 * mrr_amount
    ELSE IF billing_period = "upfront" THEN mrr_amount
    ELSE 2 * mrr_amount

\* validate_mrr_billing_consistency, lines 434-453: the amounts grouped by
\* product tier and billing period.  The statistics drawn from the groups
\* (means, deviations, outliers) are left out.
validate_mrr_billing_consistency(t) ==
    LET list == t.events
        analysed == {k \in DOMAIN list :
                        list[k].event_type \in {"new", "renewal", "expansion"}}
    IN  [result |->
            [tier_billing_analysis |->
                {[tier |-> list[k].product_tier,
                  billing_period |-> list[k].billing_period,
                  original_amount |-> list[k].mrr_amount,
                  annualized_amount |->
                      calculate_annualized_amount(list[k].mrr_amount,
                                                  list[k].billing_period),
                  event_id |-> list[k].event_id,
                  customer_id |-> list[k].customer_id] : k \in analysed}],
         tables |-> t]

\* lines 607-611: the five files are loaded
LoadData ==
    /\ script = "quality_checks"
    /\ pc = "load"
    /\ tables' = [n \in FileNames |-> load_json_data(files[n])]
    /\ pc' = "loaded"
    /\ UNCHANGED <<script, current_date, customer, subVars, adoptVars, actVars,
                   custVars, files, validations, mrr_validation,
                   report_printed, exit_status, call>>

\* lines 613-615: `if not customers: ... sys.exit(1)`
ExitNoCustomers ==
    /\ script = "quality_checks"
    /\ pc = "loaded"
    /\ tables.customers = <<>>
    /\ exit_status' = 1
    /\ pc' = "exited"
    /\ UNCHANGED <<script, current_date, customer, subVars, adoptVars, actVars,
                   custVars, files, tables, validations, mrr_validation,
                   report_printed, call>>

\* line 623: validations.append(validate_dim_customers(...)).  The validator is
\* handed the loaded lists themselves: what it does to them stays in main's.
ValidateDimCustomers ==
    /\ script = "quality_checks"
    /\ pc = "loaded"
    /\ tables.customers # <<>>
    /\ LET outcome == validate_dim_customers(tables)
       IN  /\ validations' = Append(validations, outcome.result)
           /\ tables' = outcome.tables
    /\ pc' = "frameworks"
    /\ UNCHANGED <<script, current_date, customer, subVars, adoptVars, actVars,
                   custVars, files, mrr_validation, report_printed,
                   exit_status, call>>

\* line 624: validations.append(validate_dim_frameworks(...)).  The validator is
\* handed the loaded lists themselves: what it does to them stays in main's.
ValidateDimFrameworks ==
    /\ script = "quality_checks"
    /\ pc = "frameworks"
    /\ LET outcome == validate_dim_frameworks(tables)
       IN  /\ validations' = Append(validations, outcome.result)
           /\ tables' = outcome.tables
    /\ pc' = "events"
    /\ UNCHANGED <<script, current_date, customer, subVars, adoptVars, actVars,
                   custVars, files, mrr_validation, report_printed,
                   exit_status, call>>

\* line 625: validations.append(validate_fact_subscription_events(...)).  The validator is
\* handed the loaded lists themselves: what it does to them stays in main's.
ValidateFactSubscriptionEvents ==
    /\ script = "quality_checks"
    /\ pc = "events"
    /\ LET outcome == validate_fact_subscription_events(tables)
       IN  /\ validations' = Append(validations, outcome.result)
           /\ tables' = outcome.tables
    /\ pc' = "adoptions"
    /\ UNCHANGED <<script, current_date, customer, subVars, adoptVars, actVars,
                   custVars, files, mrr_validation, report_printed,
                   exit_status, call>>

\* line 626: validations.append(validate_fact_framework_adoptions(...)).  The validator is
\* handed the loaded lists themselves: what it does to them stays in main's.
ValidateFactFrameworkAdoptions ==
    /\ script = "quality_checks"
    /\ pc = "adoptions"
    /\ LET outcome == validate_fact_framework_adoptions(tables)
       IN  /\ validations' = Append(validations, outcome.result)
           /\ tables' = outcome.tables
    /\ pc' = "activities"
    /\ UNCHANGED <<script, current_date, customer, subVars, adoptVars, actVars,
                   custVars, files, mrr_validation, report_printed,
                   exit_status, call>>

\* line 627: validations.append(validate_fact_compliance_activities(...)).  The validator is
\* handed the loaded lists themselves: what it does to them stays in main's.
ValidateFactComplianceActivities ==
    /\ script = "quality_checks"
    /\ pc = "activities"
    /\ LET outcome == validate_fact_compliance_activities(tables)
       IN  /\ validations' = Append(validations, outcome.result)
           /\ tables' = outcome.tables
    /\ pc' = "foreign_keys"
    /\ UNCHANGED <<script, current_date, customer, subVars, adoptVars, actVars,
                   custVars, files, mrr_validation, report_printed,
                   exit_status, call>>

\* line 628: validations.append(validate_foreign_keys(...)).  The validator is
\* handed the loaded lists themselves: what it does to them stays in main's.
ValidateForeignKeys ==
    /\ script = "quality_checks"
    /\ pc = "foreign_keys"
    /\ LET outcome == validate_foreign_keys(tables)
       IN  /\ validations' = Append(validations, outcome.result)
           /\ tables' = outcome.tables
    /\ pc' = "mrr"
    /\ UNCHANGED <<script, current_date, customer, subVars, adoptVars, actVars,
                   custVars, files, mrr_validation, report_printed,
                   exit_status, call>>

\* line 632
ValidateMrrBillingConsistency ==
    /\ script = "quality_checks"
    /\ pc = "mrr"
    /\ LET outcome == validate_mrr_billing_consistency(tables)
       IN  /\ mrr_validation' = outcome.result
           /\ tables' = outcome.tables
    /\ pc' = "report"
    /\ UNCHANGED <<script, current_date, customer, subVars, adoptVars, actVars,
                   custVars, files, validations, report_printed, exit_status,
                   call>>

\* print_quality_report, lines 547-593: total_issues over the validations; a
\* validation without 'issues' (an {'error': ...}) counts none.  An issue kind
\* is counted once, so the total is 0 exactly when the code's is.
RECURSIVE total_issues(_)
total_issues(list) ==
    IF list = <<>> THEN 0
    ELSE (IF Head(list).error THEN 0 ELSE Cardinality(Head(list).issues))
             + total_issues(Tail(list))

\* line 635: print_quality_report(validations)
PrintQualityReport ==
    /\ script = "quality_checks"
    /\ pc = "report"
    /\ report_printed' = TRUE
    /\ pc' = "summary"
    /\ UNCHANGED <<script, current_date, customer, subVars, adoptVars, actVars,
                   custVars, files, tables, validations, mrr_validation,
                   exit_status, call>>

\* lines 637-661: the MRR summary is printed, main returns and the process
\* exits with status 0
MainReturns ==
    /\ script = "quality_checks"
    /\ pc = "summary"
    /\ exit_status' = 0
    /\ pc' = "exited"
    /\ UNCHANGED <<script, current_date, customer, subVars, adoptVars, actVars,
                   custVars, files, tables, validations, mrr_validation,
                   report_printed, call>>

IdleQuality ==
    /\ files = [n \in FileNames |-> Missing]
    /\ tables = [n \in FileNames |-> <<>>]
    /\ validations = <<>>
    /\ mrr_validation = [tier_billing_analysis |-> {}]
    /\ report_printed = FALSE
    /\ exit_status = -1

NextQuality ==
    \/ LoadData
    \/ ExitNoCustomers
    \/ ValidateDimCustomers
    \/ ValidateDimFrameworks
    \/ ValidateFactSubscriptionEvents
    \/ ValidateFactFrameworkAdoptions
    \/ ValidateFactComplianceActivities
    \/ ValidateForeignKeys
    \/ ValidateMrrBillingConsistency
    \/ PrintQualityReport
    \/ MainReturns

-----------------------------------------------------------------------------
(* Single calls of the pure functions *)

NoCall == [fn |-> "none"]

\* generate_framework_adoptions.py lines 123-126, for one framework of the loop
CallFlipProbability ==
    /\ script = "call"
    /\ pc = "call"
    /\ call.fn = "flip_probability"
    /\ call' = [fn |-> call.fn, args |-> call.args,
                returned |-> flip_probability(call.args.customer, Frameworks,
                                         call.args.flips, call.args.k)]
    /\ pc' = "returned"
    /\ UNCHANGED <<script, current_date, customer, subVars, adoptVars, actVars,
                   custVars, qcVars>>

\* calculate_discount(billing_period, contract_length, segment, event_type)
CallCalculateDiscount ==
    /\ script = "call"
    /\ pc = "call"
    /\ call.fn = "calculate_discount"
    /\ \E discount \in calculate_discount(call.args.billing_period,
                                          call.args.contract_length,
                                          call.args.segment,
                                          call.args.event_type) :
          call' = [fn |-> call.fn, args |-> call.args, returned |-> discount]
    /\ pc' = "returned"
    /\ UNCHANGED <<script, current_date, customer, subVars, adoptVars, actVars,
                   custVars, qcVars>>

\* format_date(date)
CallFormatDate ==
    /\ script = "call"
    /\ pc = "call"
    /\ call.fn = "format_date"
    /\ call' = [fn |-> call.fn, args |-> call.args,
                returned |-> format_date(call.args)]
    /\ pc' = "returned"
    /\ UNCHANGED <<script, current_date, customer, subVars, adoptVars, actVars,
                   custVars, qcVars>>

\* parse_date(date_str)
CallParseDate ==
    /\ script = "call"
    /\ pc = "call"
    /\ call.fn = "parse_date"
    /\ call' = [fn |-> call.fn, args |-> call.args,
                returned |-> parse_date(call.args)]
    /\ pc' = "returned"
    /\ UNCHANGED <<script, current_date, customer, subVars, adoptVars, actVars,
                   custVars, qcVars>>

\* generate_subscription_events.py validate_subscription_data_comprehensive:
\* the issues and the count of unrealistic contracts (the summary statistics
\* are left out)
validate_subscription_data_comprehensive(list, customer_list) ==
    LET customer_ids == ids(customer_list, "customer_id")
        customers_with_events == ids(list, "customer_id")
        events_after_churn ==
            {k \in DOMAIN list :
                /\ list[k].event_type = "churn"
                /\ \E j \in DOMAIN list :
                      /\ list[j].customer_id = list[k].customer_id
                      /\ \/ parse_date(list[j].event_date)
                                > parse_date(list[k].event_date)
                         \/ /\ parse_date(list[j].event_date)
                                   = parse_date(list[k].event_date)
                            /\ j > k}
        unrealistic_contracts ==
            Cardinality({k \in DOMAIN list :
                            /\ list[k].event_type # "churn"
                            /\ list[k].contract_length_months < 12})
    IN  [total_events |-> Len(list),
         unrealistic_contracts |-> unrealistic_contracts,
         issues |->
             (IF customer_ids \ customers_with_events # {}
              THEN {"customers without events"} ELSE {})
             \cup (IF \E c \in customers_with_events :
                         list[first_event(list, c)].event_type # "new"
                   THEN {"first event not new"} ELSE {})
             \cup (IF events_after_churn # {}
                   THEN {"events after churn"} ELSE {})
             \cup (IF unrealistic_contracts > 0
                   THEN {"unrealistic contract lengths"} ELSE {})]

\* the two subscription validators are run on one event list: main of
\* generate_subscription_events.py line 397 and main of quality_checks.py
\* line 625
CallSubscriptionValidators ==
    /\ script = "call"
    /\ pc = "call"
    /\ call.fn = "subscription_validators"
    /\ call' = [fn |-> call.fn, args |-> call.args,
                returned |->
                    [generator |->
                         validate_subscription_data_comprehensive(call.args,
                                                                  Customers),
                     quality_checks |->
                         validate_fact_subscription_events(
                             [customers |-> Customers,
                              events |-> call.args]).result]]
    /\ pc' = "returned"
    /\ UNCHANGED <<script, current_date, customer, subVars, adoptVars, actVars,
                   custVars, qcVars>>

\* calculate_annualized_amount applied to an amount get_mrr_for_tier returns:
\* what validate_mrr_billing_consistency computes for a new or expansion event
CallAnnualizedAmount ==
    /\ script = "call"
    /\ pc = "call"
    /\ call.fn = "calculate_annualized_amount"
    /\ \E mrr_amount \in get_mrr_for_tier(call.args.tier,
                                         call.args.billing_period) :
          call' = [fn |-> call.fn, args |-> call.args,
                   returned |->
                       [mrr_amount |-> mrr_amount,
                        annualized_amount |->
                            calculate_annualized_amount(
                                mrr_amount, call.args.billing_period)]]
    /\ pc' = "returned"
    /\ UNCHANGED <<script, current_date, customer, subVars, adoptVars, actVars,
                   custVars, qcVars>>

NextCalls ==
    \/ CallFlipProbability
    \/ CallCalculateDiscount
    \/ CallFormatDate
    \/ CallParseDate
    \/ CallSubscriptionValidators
    \/ CallAnnualizedAmount

-----------------------------------------------------------------------------
(* The inputs of the scripts and the specifications *)

\* FACT_FRAMEWORK_ADOPTIONS.json as generate_compliance_activities loads it
adoption_record(adoption_id, customer_id, framework_id, start, completion_days) ==
    [adoption_id |-> adoption_id,
     customer_id |-> customer_id,
     framework_id |-> framework_id,
     start_date |-> format_date(start),
     completion_date |-> format_date(start + completion_days),
     status |-> "completed",
     audit_score |-> 80]

\* days from start_date to completion_date in the loaded adoptions; the
\* negative one is a file whose completion_date precedes its start_date
CompletionDays == {-100, 1, 30, 240}

\* customer_id 9 and framework_id 9 are in no dimension table
AdoptionTables ==
    {<<adoption_record(1, 1, 1, 425, days)>> : days \in CompletionDays}
    \cup {<<adoption_record(1, 9, 1, 425, 30), adoption_record(2, 2, 3, 780, 240)>>,
          <<adoption_record(1, 3, 7, 800, 30), adoption_record(2, 3, 9, 800, 240)>>,
          <<adoption_record(1, 2, 4, 750, 1), adoption_record(2, 3, 6, 790, 30)>>}

\* MOCK_DATA_ORIGINAL.json as generate_customers loads it
raw_customer(segment, employee_count) ==
    [segment |-> segment, employee_count |-> employee_count,
     annual_revenue |-> 0, signup_date |-> <<1, 1, 2024>>]

RawCustomers == {raw_customer(segment, employee_count) :
                    segment \in Segments, employee_count \in {0, 700}}

RawTables == {<<c>> : c \in RawCustomers}
                 \cup {<<c, d>> : c \in RawCustomers, d \in RawCustomers}

\* FACT_SUBSCRIPTION_EVENTS.json as quality_checks loads it
event_record(event_id, customer_id, day, event_type, tier, mrr, billing, months) ==
    [event_id |-> event_id,
     customer_id |-> customer_id,
     event_date |-> format_date(day),
     event_type |-> event_type,
     product_tier |-> tier,
     mrr_amount |-> mrr,
     billing_period |-> billing,
     contract_length_months |-> months,
     discount_percentage |-> 0]

\* a file as generate_subscription_events writes it, and a file out of date
\* order with a half-year contract and an event of the unknown customer 9
EventTables ==
    {<<event_record(1, 1, 385, "new", "starter", 299, "monthly", 12),
       event_record(2, 1, 745, "renewal", "starter", 299, "monthly", 12),
       event_record(3, 2, 750, "new", "professional", 2397, "quarterly", 24),
       event_record(4, 3, 760, "new", "enterprise", 71976, "upfront", 36)>>,
     <<event_record(1, 1, 745, "renewal", "starter", 299, "monthly", 6),
       event_record(2, 1, 385, "new", "starter", 299, "monthly", 12),
       event_record(3, 9, 400, "churn", "starter", 0, "annual", 0)>>}

\* the contract lengths of the event lists handed to the validators: a churn
\* event carries 0, a generated contract 12, 24 or 36
ContractLengths == {0, 6, 11, 12, 24}

\* event lists of customer 1: a new event alone, and a new event followed by
\* a renewal-time event or a churn event
EventLists ==
    EventTables
    \cup {<<event_record(1, 1, 385, "new", "starter", 299, "monthly", months)>> :
             months \in ContractLengths}
    \cup {<<event_record(1, 1, 385, "new", "starter", 299, "monthly", 12),
            event_record(2, 1, 745, event_type, "starter", 299, "monthly", months)>> :
             event_type \in {"renewal", "churn"}, months \in ContractLengths}

\* FACT_COMPLIANCE_ACTIVITIES.json as quality_checks loads it; adoption_id 7 is
\* in no adoption file of the model
activity_record(activity_id, customer_id, adoption_id, day, automated, success) ==
    [activity_id |-> activity_id,
     customer_id |-> customer_id,
     framework_id |-> 1,
     adoption_id |-> adoption_id,
     activity_date |-> format_date(day),
     automated_flag |-> automated,
     success_flag |-> success]

\* a file with three successful activities of four, half of them automated; a
\* file of two successful automated activities; a file with a failed activity
\* of the unknown adoption 7
ActivityTables ==
    {<<activity_record(1, 1, 1, 430, TRUE, TRUE),
       activity_record(2, 1, 1, 500, TRUE, TRUE),
       activity_record(3, 1, 1, 510, FALSE, TRUE),
       activity_record(4, 1, 1, 520, FALSE, FALSE)>>,
     <<activity_record(1, 1, 1, 430, TRUE, TRUE),
       activity_record(2, 1, 1, 500, TRUE, TRUE)>>,
     <<activity_record(1, 2, 7, 800, FALSE, FALSE)>>}

\* DIM_CUSTOMERS.json with signup dates over the five years of
\* expand_signup_dates_5_years
CustomersOverFiveYears ==
    [Customers EXCEPT ![1].signup_date = <<1, 15, 2020>>,
                      ![2].signup_date = <<12, 30, 2024>>]

\* FACT_FRAMEWORK_ADOPTIONS.json as quality_checks loads it: one adoption per
\* customer; one adoption only; adoptions of the unknown customer 9 and the
\* unknown framework 9, the first completed before it started
LoadedAdoptionTables ==
    {<<adoption_record(1, 1, 1, 425, 240), adoption_record(2, 2, 3, 780, 30),
       adoption_record(3, 3, 7, 800, 30)>>,
     <<adoption_record(1, 1, 1, 425, 240)>>,
     <<adoption_record(1, 9, 1, 425, -100), adoption_record(2, 2, 9, 780, 30)>>}

\* what can be on disk under one file name
FileStates(contents) == {Missing, Malformed} \cup {Readable(c) : c \in contents}

\* the data directory as quality_checks finds it; one frameworks file lacks
\* the last framework and one numbers it 9
DataDirectories ==
    {[customers |-> c, frameworks |-> f, events |-> e, adoptions |-> a,
      activities |-> v] :
        c \in FileStates({Customers, CustomersOverFiveYears, <<>>}),
        f \in FileStates({Frameworks, SubSeq(Frameworks, 1, 7),
                          [Frameworks EXCEPT ![8].framework_id = 9]}),
        e \in FileStates(EventTables),
        a \in FileStates(LoadedAdoptionTables),
        v \in FileStates(ActivityTables)}

Industries == {"healthtech", "fintech", "ecommerce", "government_contractors",
               "saas", "other"}

Maturities == {"beginner", "intermediate", "advanced"}

EventTypes == {"new", "renewal", "expansion", "downgrade", "churn"}

\* the last day number and the last year of the dates the calls are made with
LastDay == 2921

LastYear == 2027

\* the strings strptime('%m/%d/%Y') accepts, up to LastYear
DateStrings ==
    {date_str \in (1 .. 12) \X (1 .. 31) \X (EpochYear .. LastYear) :
        date_str[2] <= DaysInMonth(date_str[3], date_str[1])}

\* the calls made, with their arguments
Calls ==
    {[fn |-> "flip_probability",
      args |-> [customer |-> [industry |-> industry, segment |-> segment,
                              compliance_maturity |-> maturity],
                k |-> k,
                flips |-> [j \in DOMAIN Frameworks |-> soc2_type_i_adopted]]] :
        industry \in Industries, segment \in Segments, maturity \in Maturities,
        k \in DOMAIN Frameworks, soc2_type_i_adopted \in BOOLEAN}
    \cup {[fn |-> "calculate_discount",
           args |-> [billing_period |-> billing_period,
                     contract_length |-> contract_length,
                     segment |-> segment, event_type |-> event_type]] :
             billing_period \in {"monthly", "quarterly", "annual", "upfront"},
             contract_length \in {12, 24, 36},
             segment \in Segments, event_type \in EventTypes}
    \cup {[fn |-> "format_date", args |-> date] : date \in 0 .. LastDay}
    \cup {[fn |-> "parse_date", args |-> date_str] : date_str \in DateStrings}
    \cup {[fn |-> "subscription_validators", args |-> list] :
             list \in EventLists}
    \cup {[fn |-> "calculate_annualized_amount",
           args |-> [tier |-> tier, billing_period |-> billing_period]] :
             tier \in Range(tier_hierarchy),
             billing_period \in {"monthly", "quarterly", "annual", "upfront"}}

\* generate_subscription_lifecycle called for one customer
InitSubscription ==
    /\ script = "generate_subscription_events"
    /\ pc = "start"
    /\ current_date = NowDay
    /\ customer \in Range(Customers)
    /\ will_churn = FALSE
    /\ events = <<>>
    /\ event_id_counter = 1
    /\ last_event_date = 0
    /\ current_mrr = 0
    /\ current_tier = "none"
    /\ current_billing = "none"
    /\ current_contract_length = 0
    /\ current_event = NoEvent
    /\ rolls = <<>>
    /\ IdleAdoptions
    /\ IdleActivities
    /\ IdleCustomers
    /\ IdleQuality
    /\ call = NoCall

\* the body of the loop over customers in generate_framework_adoptions
InitAdoptions ==
    /\ script = "generate_framework_adoptions"
    /\ pc = "determine"
    /\ current_date = NowDay
    /\ customer \in Range(Customers)
    /\ customer_frameworks = <<>>
    /\ adoptions = <<>>
    /\ adoption_id_counter = 1
    /\ IdleSubscription
    /\ IdleActivities
    /\ IdleCustomers
    /\ IdleQuality
    /\ call = NoCall

\* generate_compliance_activities, lines 261-265
InitActivities ==
    /\ script = "generate_compliance_activities"
    /\ pc = "adoptions"
    /\ current_date = NowDay
    /\ customer = Customers[1]
    /\ loaded_adoptions \in AdoptionTables
    /\ adoption_index = 1
    /\ draws = <<>>
    /\ all_activities = <<>>
    /\ activity_id_counter = 1
    /\ IdleSubscription
    /\ IdleAdoptions
    /\ IdleCustomers
    /\ IdleQuality
    /\ call = NoCall

\* generate_customers.main after load_data
InitCustomers ==
    /\ script = "generate_customers"
    /\ pc = "expand_signup_dates"
    /\ current_date = NowDay
    /\ customer = Customers[1]
    /\ customers \in RawTables
    /\ validation = NoValidation
    /\ IdleSubscription
    /\ IdleAdoptions
    /\ IdleActivities
    /\ IdleQuality
    /\ call = NoCall

\* quality_checks.main before the files are loaded
InitQuality ==
    /\ script = "quality_checks"
    /\ pc = "load"
    /\ current_date = NowDay
    /\ customer = Customers[1]
    /\ files \in DataDirectories
    /\ tables = [n \in FileNames |-> <<>>]
    /\ validations = <<>>
    /\ mrr_validation = [tier_billing_analysis |-> {}]
    /\ report_printed = FALSE
    /\ exit_status = -1
    /\ call = NoCall
    /\ IdleSubscription
    /\ IdleAdoptions
    /\ IdleActivities
    /\ IdleCustomers

\* one call of a pure function with its arguments bound
InitCalls ==
    /\ script = "call"
    /\ pc = "call"
    /\ current_date = NowDay
    /\ customer = Customers[1]
    /\ call \in Calls
    /\ IdleSubscription
    /\ IdleAdoptions
    /\ IdleActivities
    /\ IdleCustomers
    /\ IdleQuality

SpecSubscription == InitSubscription /\ [][NextSubscription]_vars

\* generate_subscription_lifecycle runs in one thread: a statement that can
\* run does run
SpecSubscriptionFair == SpecSubscription /\ WF_vars(NextSubscription)

SpecAdoptions == InitAdoptions /\ [][NextAdoptions]_vars

SpecActivities == InitActivities /\ [][NextActivities]_vars

SpecCustomers == InitCustomers /\ [][NextCustomers]_vars

SpecQuality == InitQuality /\ [][NextQuality]_vars

SpecCalls == InitCalls /\ [][NextCalls]_vars

Init ==
    \/ InitSubscription
    \/ InitAdoptions
    \/ InitActivities
    \/ InitCustomers
    \/ InitQuality
    \/ InitCalls

Next ==
    \/ NextSubscription
    \/ NextAdoptions
    \/ NextActivities
    \/ NextCustomers
    \/ NextQuality
    \/ NextCalls

Spec == Init /\ [][Next]_vars

-----------------------------------------------------------------------------
(* Properties *)

\* parse_date(e['event_date']) of the k-th generated event
event_day(k) == parse_date(events[k].event_date)

\* C1: for every customer the sequence generate_subscription_lifecycle builds
\* and returns holds exactly one 'new' event, and that event is the first of
\* the sequence and the earliest by event_date.
C1_ExactlyOneNewFirst ==
    (script = "generate_subscription_events" /\ pc \in {"loop", "done"}) =>
        /\ Len(events) >= 1
        /\ events[1].event_type = "new"
        /\ \A k \in 2 .. Len(events) :
              /\ events[k].event_type # "new"
              /\ event_day(1) < event_day(k)

C1_Witness ==
    /\ script = "generate_subscription_events"
    /\ pc = "done"
    /\ Len(events) = 3
    /\ events[1].event_type = "new"
    /\ events[2].event_type = "expansion"

\* C2: the sequence of a customer holds at most one 'churn' event, and a churn
\* is the last event: at no point of the generation does an event follow it.
C2_ChurnIsLast ==
    \A k \in DOMAIN events :
        events[k].event_type = "churn" => k = Len(events)

C2_Witness ==
    /\ script = "generate_subscription_events"
    /\ pc = "done"
    /\ Len(events) = 2
    /\ events[2].event_type = "churn"

\* C3: the event_date values of a customer's events are strictly increasing in
\* the order the events are generated.
C3_DatesStrictlyIncreasing ==
    \A j \in DOMAIN events, k \in DOMAIN events :
        j < k => event_day(j) < event_day(k)

C3_Witness ==
    /\ script = "generate_subscription_events"
    /\ Len(events) = 3
    /\ event_day(1) < event_day(2)
    /\ event_day(2) < event_day(3)

\* C4: every event that is not a churn has a contract_length_months of 12, 24
\* or 36 (so at least 12), and 36 only for a customer of the enterprise segment.
C4_ContractAtLeastTwelve ==
    \A k \in DOMAIN events :
        events[k].event_type # "churn" =>
            /\ events[k].contract_length_months \in {12, 24, 36}
            /\ events[k].contract_length_months >= 12
            /\ events[k].contract_length_months = 36
                   => customer.segment = "enterprise"

C4_Witness ==
    /\ script = "generate_subscription_events"
    /\ Len(events) = 2
    /\ events[1].event_type = "new"
    /\ events[1].contract_length_months = 12
    /\ events[2].event_type = "downgrade"
    /\ events[2].contract_length_months = 36

\* next(a for a in adoptions if a['adoption_id'] == adoption_id): the first
\* loaded adoption an activity refers to
adoption_of(activity) ==
    loaded_adoptions[CHOOSE k \in DOMAIN loaded_adoptions :
        /\ loaded_adoptions[k].adoption_id = activity.adoption_id
        /\ \A j \in 1 .. (k - 1) :
              loaded_adoptions[j].adoption_id # activity.adoption_id]

\* the temporal check of validate_compliance_activities
within_timeline(activity_day, adoption) ==
    /\ parse_date(adoption.start_date) <= activity_day
    /\ activity_day <= parse_date(adoption.completion_date) + 90

\* C5: for every adoption whose completion_date is later than its start_date,
\* each date generate_activity_dates can draw in any of the four phases, and
\* each activity_date generated for it, lies within
\* [start_date, completion_date + 90 days].
C5_ActivityDatesWithinTimeline ==
    /\ \A k \in DOMAIN loaded_adoptions :
          LET adoption == loaded_adoptions[k]
              start_date == parse_date(adoption.start_date)
              completion_date == parse_date(adoption.completion_date)
          IN  completion_date > start_date =>
                  \A phase \in {"start", "middle", "completion", "post"} :
                  \A days_offset
                         \in phase_offsets(phase, start_date, completion_date) :
                      within_timeline(start_date + days_offset, adoption)
    /\ \A k \in DOMAIN all_activities :
          LET adoption == adoption_of(all_activities[k])
          IN  parse_date(adoption.completion_date)
                      > parse_date(adoption.start_date) =>
                  within_timeline(parse_date(all_activities[k].activity_date),
                                  adoption)

C5_Witness ==
    /\ script = "generate_compliance_activities"
    /\ pc = "done"
    /\ Len(loaded_adoptions) = 1
    /\ parse_date(loaded_adoptions[1].completion_date)
           = parse_date(loaded_adoptions[1].start_date) + 1
    /\ Len(all_activities) = 2
    /\ \E j \in DOMAIN draws, k \in DOMAIN draws :
          /\ draws[j].phase = "completion"
          /\ draws[k].phase = "post"
          /\ draws[k].days_offset = 91
    /\ parse_date(all_activities[2].activity_date)
           = parse_date(loaded_adoptions[1].completion_date) + 90

\* C6: for every customer maturity and every framework, the dates
\* generate_adoption_dates returns for an adoption record are a completion_date
\* strictly later than start_date, at least 30 days later, and a start_date
\* between signup_date and signup_date + 365 days.
C6_AdoptionDates ==
    \A k \in DOMAIN adoptions :
        LET start_date == parse_date(adoptions[k].start_date)
            completion_date == parse_date(adoptions[k].completion_date)
            signup_date == parse_date(customer.signup_date)
        IN  /\ completion_date > start_date
            /\ completion_date >= start_date + 30
            /\ signup_date <= start_date
            /\ start_date <= signup_date + 365

C6_Witness ==
    /\ script = "generate_framework_adoptions"
    /\ pc = "done"
    /\ customer.compliance_maturity = "advanced"
    /\ Len(adoptions) = 2
    /\ parse_date(adoptions[1].start_date)
           = parse_date(customer.signup_date) + 365
    /\ parse_date(adoptions[1].completion_date)
           = parse_date(adoptions[1].start_date) + 42

\* C7: once fix_employee_count_by_segment and fix_revenue_by_segment have run,
\* every customer of the startup, mid_market or enterprise segment has its
\* employee_count and annual_revenue inside the bounds of the segment, and
\* validate_customer_data counts no violation.
C7_SegmentBoundsAfterFix ==
    (script = "generate_customers" /\ pc \in {"add_ids", "validate", "done"}) =>
        /\ \A k \in DOMAIN customers :
              LET c == customers[k]
              IN  /\ c.segment = "startup" =>
                         /\ c.employee_count \in 1 .. 50
                         /\ c.annual_revenue \in 100000 .. 5000000
                  /\ c.segment = "mid_market" =>
                         /\ c.employee_count \in 51 .. 500
                         /\ c.annual_revenue \in 5000000 .. 100000000
                  /\ c.segment = "enterprise" =>
                         /\ c.employee_count \in 501 .. 10000
                         /\ c.annual_revenue \in 100000000 .. 1000000000
        /\ pc = "done" =>
              /\ validation.total_customers = Len(customers)
              /\ validation.employee_violations = 0
              /\ validation.revenue_violations = 0

C7_Witness ==
    /\ script = "generate_customers"
    /\ pc = "done"
    /\ Len(customers) = 2
    /\ customers[1].segment = "startup"
    /\ customers[1].employee_count = 50
    /\ customers[2].segment = "enterprise"
    /\ customers[2].annual_revenue = 100000000
    /\ validation.total_customers = 2
    /\ validation.employee_violations = 0

\* C8: every foreign key of a generated fact record resolves: the customer_id
\* of each subscription event, the customer_id and framework_id of each
\* adoption, and the adoption_id, customer_id and framework_id of each
\* activity are ids of the loaded tables; an adoption whose customer or
\* framework is in no table yields no activity.
C8_ForeignKeysResolve ==
    /\ \A k \in DOMAIN events :
          events[k].customer_id \in ids(Customers, "customer_id")
    /\ \A k \in DOMAIN adoptions :
          /\ adoptions[k].customer_id \in ids(Customers, "customer_id")
          /\ adoptions[k].framework_id \in ids(Frameworks, "framework_id")
    /\ \A k \in DOMAIN all_activities :
          /\ all_activities[k].adoption_id \in ids(loaded_adoptions, "adoption_id")
          /\ all_activities[k].customer_id \in ids(Customers, "customer_id")
          /\ all_activities[k].framework_id \in ids(Frameworks, "framework_id")
    /\ \A j \in DOMAIN loaded_adoptions :
          (\/ loaded_adoptions[j].customer_id \notin ids(Customers, "customer_id")
           \/ loaded_adoptions[j].framework_id
                  \notin ids(Frameworks, "framework_id"))
          => \A k \in DOMAIN all_activities :
                all_activities[k].adoption_id # loaded_adoptions[j].adoption_id

C8_Witness ==
    /\ script = "generate_compliance_activities"
    /\ pc = "done"
    /\ Len(loaded_adoptions) = 2
    /\ loaded_adoptions[1].customer_id \notin ids(Customers, "customer_id")
    /\ Len(all_activities) = 2
    /\ all_activities[1].adoption_id = 2

\* C9: for every customer maturity and every framework complexity_score, the
\* audit_score calculate_audit_score returns for an adoption record is in
\* [50, 98].
C9_AuditScoreRange ==
    \A k \in DOMAIN adoptions :
        50 <= adoptions[k].audit_score /\ adoptions[k].audit_score <= 98

\* C10: the 'new' event of a customer of the startup segment is dated between
\* signup_date and signup_date + 30 days inclusive, its product_tier is
\* starter or professional, and its contract_length_months is 12 or 24.
C10_StartupNewEvent ==
    (/\ script = "generate_subscription_events"
     /\ pc \in {"loop", "done"}
     /\ customer.segment = "startup") =>
        /\ events[1].event_type = "new"
        /\ parse_date(customer.signup_date) <= event_day(1)
        /\ event_day(1) <= parse_date(customer.signup_date) + 30
        /\ events[1].product_tier \in {"starter", "professional"}
        /\ events[1].contract_length_months \in {12, 24}

C10_Witness ==
    /\ script = "generate_subscription_events"
    /\ pc = "done"
    /\ customer.segment = "startup"
    /\ customer.signup_date = <<1, 15, 2021>>
    /\ events[1].event_type = "new"
    /\ events[1].event_date = <<2, 14, 2021>>
    /\ events[1].contract_length_months = 24

-----------------------------------------------------------------------------
\* C11: for a customer of any industry, segment and maturity and for every
\* framework, the probability that determine_framework_adoptions_for_customer
\* compares random.random() with lies between 0 and 0.95, the frameworks whose
\* industry rate is 0.98 included.
C11_FlipProbabilityCapped ==
    (script = "call" /\ pc = "returned" /\ call.fn = "flip_probability")
        => call.returned \in 0 .. Rate(95)

\* the probability of a framework with an industry rate of 0.98 was computed,
\* for a customer whose segment and maturity leave the rate as it is
C11_Witness ==
    /\ script = "call"
    /\ pc = "returned"
    /\ call.fn = "flip_probability"
    /\ industry_multipliers(call.args.customer.industry,
                            Frameworks[call.args.k].framework_name) = Rate(98)
    /\ call.args.customer.segment = "startup"
    /\ call.args.customer.compliance_maturity = "beginner"
    /\ call.returned = Rate(95)

-----------------------------------------------------------------------------
\* C12: for every billing period, contract length, segment and event type
\* calculate_discount returns a percentage between 0 and 5, and every event
\* generated, the churn event included, has a discount_percentage between 0
\* and 5 (percentages are held in tenths of a percent).
C12_DiscountRange ==
    /\ (script = "call" /\ pc = "returned" /\ call.fn = "calculate_discount")
           => call.returned \in 0 .. 50
    /\ \A k \in DOMAIN events : events[k].discount_percentage \in 0 .. 50

\* a customer signed a two-year contract billed annually, whose payment and
\* multi-year discounts add up to more than 5 percent, and churned afterwards
C12_Witness ==
    /\ script = "generate_subscription_events"
    /\ Len(events) = 2
    /\ events[1].billing_period = "annual"
    /\ events[1].contract_length_months = 24
    /\ events[1].discount_percentage = 50
    /\ events[2].event_type = "churn"
    /\ events[2].discount_percentage = 0

-----------------------------------------------------------------------------
\* C13: when any of the five input files of quality_checks.main (customers,
\* frameworks, events, adoptions, activities) is missing or malformed, no
\* quality report is printed and the process exits with a nonzero status; the
\* process exits with status 0 only when every input file was loaded.
C13_ExitsOnAnyMissingFile ==
    script = "quality_checks" =>
        /\ (\E n \in FileNames : files[n].state # "ok")
               => (~report_printed /\ exit_status # 0)
        /\ exit_status = 0 => \A n \in FileNames : files[n].state = "ok"

-----------------------------------------------------------------------------
\* C14: the days between start_date and completion_date of an adoption are
\* max(int(avg_completion_days * f) + v, 30) for an integer v of -30..30, with
\* f = 0.8 for an advanced customer, 1.0 for an intermediate one and 1.3 for a
\* beginner; for an advanced customer and a framework of 90 average days they
\* lie in 42..102.
C14_CompletionDays ==
    \A k \in DOMAIN adoptions :
        LET framework == lookup(Frameworks, "framework_id",
                                adoptions[k].framework_id)
            avg_completion_days == framework.avg_completion_days
            maturity == customer.compliance_maturity
            tenths == IF maturity = "advanced" THEN 8
                      ELSE IF maturity = "beginner" THEN 13 ELSE 10
            completion_days == parse_date(adoptions[k].completion_date)
                                   - parse_date(adoptions[k].start_date)
            scaled == (avg_completion_days * tenths) \div 10
        IN  \* max(scaled + v, 30) for some integer v of -30..30
            /\ completion_days >= Max(scaled - 30, 30)
            /\ completion_days <= Max(scaled + 30, 30)
            /\ (maturity = "advanced" /\ avg_completion_days = 90)
                   => completion_days \in 42 .. 102

\* an advanced customer adopted a framework of 90 average days and a second
\* one, the first completed after 102 days
C14_Witness ==
    /\ script = "generate_framework_adoptions"
    /\ customer.compliance_maturity = "advanced"
    /\ Len(adoptions) = 2
    /\ lookup(Frameworks, "framework_id",
              adoptions[1].framework_id).avg_completion_days = 90
    /\ parse_date(adoptions[1].completion_date)
           = parse_date(adoptions[1].start_date) + 102

-----------------------------------------------------------------------------
\* C15: date strings round-trip.  parse_date(format_date(d)) = d for every
\* date d the generators can format (the signup window and the adoption and
\* activity dates that follow it end before LastDay), and
\* format_date(parse_date(s)) = s for every date string s of those years.
C15_DateRoundTrip ==
    /\ (script = "call" /\ pc = "returned" /\ call.fn = "format_date")
           => parse_date(call.returned) = call.args
    /\ (script = "call" /\ pc = "returned" /\ call.fn = "parse_date")
           => format_date(call.returned) = call.args

\* the leap day of 2024 was formatted
C15_Witness ==
    /\ script = "call"
    /\ pc = "returned"
    /\ call.fn = "format_date"
    /\ call.args = parse_date(<<2, 28, 2024>>) + 1
    /\ call.returned = <<2, 29, 2024>>

-----------------------------------------------------------------------------
\* C16: every validator (validate_dim_customers, validate_dim_frameworks,
\* validate_fact_subscription_events, validate_fact_framework_adoptions,
\* validate_fact_compliance_activities, validate_foreign_keys and
\* validate_mrr_billing_consistency) leaves the record lists passed to it
\* unchanged: after any number of them the lists are as they were loaded.
C16_ValidatorsLeaveListsUnchanged ==
    (script = "quality_checks" /\ pc # "load")
        => tables = [n \in FileNames |-> load_json_data(files[n])]

\* the seven validators have run on an event list that is not in date order
C16_Witness ==
    /\ script = "quality_checks"
    /\ pc = "report"
    /\ Len(validations) = 6
    /\ Len(tables.events) = 3
    /\ parse_date(tables.events[1].event_date)
           > parse_date(tables.events[2].event_date)
    /\ "unrealistic contract lengths" \in validations[3].issues

-----------------------------------------------------------------------------
\* C17: a churn event is generated only for a customer flagged to churn and
\* only at a renewal boundary; the churn roll is made at every renewal boundary
\* of a flagged customer that lies at least 365 days after signup (a boundary
\* exactly 365 days after signup included) and at no earlier boundary.
C17_ChurnRollFromDay365 ==
    script = "generate_subscription_events" =>
        \A k \in 2 .. Len(events) :
            LET boundary == event_day(k)
                days == boundary - parse_date(customer.signup_date)
            IN  /\ (\E j \in DOMAIN rolls : rolls[j] = boundary)
                       <=> (will_churn /\ days >= 365)
                /\ events[k].event_type = "churn"
                       => /\ will_churn
                          /\ boundary = event_day(k - 1)
                                 + events[k - 1].contract_length_months * 30

-----------------------------------------------------------------------------
\* C18: every expansion event has a product_tier strictly higher in the tier
\* hierarchy than the tier of the event before it, except when that tier is
\* enterprise_plus, where the expansion stays at enterprise_plus.
C18_ExpansionRaisesTier ==
    \A k \in 2 .. Len(events) :
        events[k].event_type = "expansion" =>
            IF events[k - 1].product_tier = "enterprise_plus"
            THEN events[k].product_tier = "enterprise_plus"
            ELSE tier_index(events[k].product_tier)
                     > tier_index(events[k - 1].product_tier)

\* a customer expanded twice, from starter to professional and on to enterprise
C18_Witness ==
    /\ script = "generate_subscription_events"
    /\ Len(events) = 3
    /\ events[1].product_tier = "starter"
    /\ events[2].event_type = "expansion"
    /\ events[2].product_tier = "professional"
    /\ events[3].event_type = "expansion"
    /\ events[3].product_tier = "enterprise"

-----------------------------------------------------------------------------
\* C19: consecutive events of a customer follow only the transitions
\* new -> {renewal, expansion, downgrade},
\* {renewal, expansion, downgrade} -> {renewal, expansion, downgrade} and
\* {renewal, expansion, downgrade} -> churn; a churn event never immediately
\* follows the new event.
C19_EventTypeTransitions ==
    \A k \in 2 .. Len(events) :
        LET renewal_time == {"renewal", "expansion", "downgrade"}
            before == events[k - 1].event_type
            after == events[k].event_type
        IN  \/ before = "new" /\ after \in renewal_time
            \/ before \in renewal_time /\ after \in renewal_time \cup {"churn"}

-----------------------------------------------------------------------------
\* C20: no renewal, expansion, downgrade or churn event is dated after the
\* generation time: the loop emits an event only when the next renewal date is
\* not later than the current date, and it stops at the first renewal date
\* that is later.
C20_NoEventAfterNow ==
    script = "generate_subscription_events" =>
        /\ \A k \in 2 .. Len(events) : event_day(k) <= current_date
        /\ (pc = "done" /\ events[Len(events)].event_type # "churn")
               => event_day(Len(events))
                      + events[Len(events)].contract_length_months * 30
                          > current_date

\* the lifecycle ended after a renewal-time event two days before the
\* generation time, the next renewal date being later than the generation time
C20_Witness ==
    /\ script = "generate_subscription_events"
    /\ pc = "done"
    /\ Len(events) = 3
    /\ events[3].event_type \in {"renewal", "expansion", "downgrade"}
    /\ event_day(3) = current_date - 2
    /\ next_event_date > current_date

-----------------------------------------------------------------------------
\* C21: for every customer and every outcome of the coin flips,
\* determine_framework_adoptions_for_customer returns at least one framework
\* and never the same framework twice, so the customer gets at least one
\* adoption record and at most one adoption record per framework.
C21_AtLeastOneNoDuplicate ==
    script = "generate_framework_adoptions" =>
        /\ pc # "determine" =>
               /\ Len(customer_frameworks) >= 1
               /\ \A i, j \in DOMAIN customer_frameworks :
                      i # j => customer_frameworks[i].framework_id
                                   # customer_frameworks[j].framework_id
        /\ pc = "done" => Len(adoptions) >= 1
        /\ \A i, j \in DOMAIN adoptions :
               i # j => adoptions[i].framework_id # adoptions[j].framework_id

\* every coin failed or only the first came up: SOC2_Type_I alone was
\* returned and its adoption record written
C21_Witness ==
    /\ script = "generate_framework_adoptions"
    /\ pc = "done"
    /\ Len(customer_frameworks) = 1
    /\ customer_frameworks[1].framework_name = "SOC2_Type_I"
    /\ Len(adoptions) = 1
    /\ adoptions[1].framework_id = customer_frameworks[1].framework_id

-----------------------------------------------------------------------------
\* C22: the frameworks determine_framework_adoptions_for_customer returns for
\* a customer contain SOC2_Type_I and at least one other framework.
C22_Soc2AndAnother ==
    (script = "generate_framework_adoptions" /\ pc # "determine") =>
        /\ \E k \in DOMAIN customer_frameworks :
               customer_frameworks[k].framework_name = "SOC2_Type_I"
        /\ \E k \in DOMAIN customer_frameworks :
               customer_frameworks[k].framework_name # "SOC2_Type_I"

-----------------------------------------------------------------------------
\* C23: validate_subscription_data_comprehensive of the generator and
\* validate_fact_subscription_events of quality_checks record the issue
\* 'unrealistic contract lengths (<12 months)' on the same event lists: each
\* records it exactly when some event whose event_type is not 'churn' has a
\* contract_length_months below 12.
C23_SameUnrealisticContractIssue ==
    (script = "call" /\ pc = "returned"
         /\ call.fn = "subscription_validators") =>
        LET list == call.args
            short_contract ==
                \E k \in DOMAIN list :
                    /\ list[k].event_type # "churn"
                    /\ list[k].contract_length_months < 12
        IN  /\ "unrealistic contract lengths" \in call.returned.generator.issues
                   <=> short_contract
            /\ "unrealistic contract lengths"
                       \in call.returned.quality_checks.issues
                   <=> short_contract

-----------------------------------------------------------------------------
\* C24: for an adoption whose completion_date is at least 30 days after its
\* start_date, an activity date drawn in the 'completion' phase lies between
\* 60% of the timeline and the completion_date, never after the
\* completion_date; only the 'post' phase yields dates after completion_date.
C24_CompletionPhaseBeforeCompletion ==
    (script = "generate_compliance_activities" /\ adoption_index = 2) =>
        LET adoption == loaded_adoptions[1]
            completion_offset == parse_date(adoption.completion_date)
                                     - parse_date(adoption.start_date)
            total_days == completion_offset + 90
        IN  completion_offset >= 30 =>
                \A k \in DOMAIN draws :
                    /\ draws[k].phase = "completion" =>
                           /\ draws[k].days_offset >= int_fraction(total_days, 6)
                           /\ draws[k].days_offset <= completion_offset
                    /\ draws[k].days_offset > completion_offset =>
                           draws[k].phase = "post"

-----------------------------------------------------------------------------
\* C25: validate_foreign_keys records the issue 'Framework IDs not sequential
\* 1-8' whenever the set of framework_id values of the frameworks table
\* differs from {1, ..., 8}, and never when it equals that set.
C25_FrameworkIdsSequential ==
    (script = "quality_checks" /\ Len(validations) >= 6) =>
        ("framework ids not sequential 1-8" \in validations[6].issues
             <=> ids(tables.frameworks, "framework_id") # 1 .. 8)

-----------------------------------------------------------------------------
\* C26: annualization inverts the billing-period scaling of the generator.
\* For every tier, every base monthly amount m and every billing period p of
\* monthly, quarterly, annual and upfront, calculate_annualized_amount applied
\* to the amount get_mrr_for_tier produces for (m, p) equals 12 * m (amounts
\* annualized are held in halves of a currency unit).
C26_AnnualizationInvertsScaling ==
    (script = "call" /\ pc = "returned"
         /\ call.fn = "calculate_annualized_amount") =>
        LET billing_period == call.args.billing_period
            scale == IF billing_period = "monthly" THEN 1
                     ELSE IF billing_period = "quarterly" THEN 3
                     ELSE IF billing_period = "annual" THEN 12
                     ELSE 24
        IN  \E m \in base_monthly_amounts(call.args.tier) :
                /\ call.returned.mrr_amount = m * scale
                /\ call.returned.annualized_amount = 2 * (12 * m)

\* an upfront amount of the enterprise_plus tier was annualized
C26_Witness ==
    /\ script = "call"
    /\ pc = "returned"
    /\ call.fn = "calculate_annualized_amount"
    /\ call.args.billing_period = "upfront"
    /\ call.args.tier = "enterprise_plus"
    /\ call.returned.mrr_amount = 50000 * 24
    /\ call.returned.annualized_amount = 2 * (12 * 50000)

\* C27: the report ends with 'ALL QUALITY CHECKS PASSED' only when the
\* frameworks, subscription events, adoptions and activities files were all
\* read and none was empty: a missing, malformed or empty one of them keeps the
\* summary from being the all-passed one.
C27_AllPassedOnlyWhenAllLoaded ==
    (script = "quality_checks" /\ report_printed
        /\ total_issues(validations) = 0)
        => \A name \in {"frameworks", "events", "adoptions", "activities"} :
               files[name].state = "ok" /\ files[name].content # <<>>

\* C28: an expansion event's mrr_amount is never lower than the mrr_amount of
\* the event before it.
C28_ExpansionNeverLowersMrr ==
    script = "generate_subscription_events"
        => \A k \in 2 .. Len(events) :
               events[k].event_type = "expansion"
                   => events[k].mrr_amount >= events[k - 1].mrr_amount

\* C29: every later event of a customer carries the billing_period,
\* sales_channel and payment_method of the new event, and the product_tier of
\* the event before it unless it is an expansion.
C29_TermsKeptTierOnlyOnExpansion ==
    script = "generate_subscription_events"
        => \A k \in 2 .. Len(events) :
               /\ events[k].billing_period = events[1].billing_period
               /\ events[k].sales_channel = events[1].sales_channel
               /\ events[k].payment_method = events[1].payment_method
               /\ events[k].event_type # "expansion"
                      => events[k].product_tier = events[k - 1].product_tier

\* an expansion that changed the tier, followed by an event that kept it
C29_Witness ==
    /\ script = "generate_subscription_events"
    /\ Len(events) >= 3
    /\ events[2].event_type = "expansion"
    /\ events[2].product_tier # events[1].product_tier
    /\ events[3].event_type \in {"renewal", "downgrade", "churn"}
    /\ events[3].product_tier = events[2].product_tier

=============================================================================
